---- MODULE Spec2Model ----
(***************************************************************************)
(* A model of the geometric kernel of gearcutter: the float binary search, *)
(* the binary-heap priority queue, the lower-envelope normaliser and the   *)
(* biarc sample selection.  Each component has its own variables and its   *)
(* own specification; the variables of the other components stay idle.     *)
(***************************************************************************)
EXTENDS Integers, Sequences, FiniteSets, Bags, TLC

VARIABLES
  \* searchForFloat (src/src/floatBinarySearch.ts)
  fs_lo0,     \* the lo argument
  fs_hi0,     \* the hi argument
  fs_pred,    \* the isLowerBound argument: a threshold test or an arbitrary test
  fs_pc,      \* position: "idle", "start", "scale", "unwind", "bisect", "done"
  fs_lo,      \* the local lo / low (of the negated range while fs_neg)
  fs_hi,      \* the local hi / high
  fs_neg,     \* TRUE while scaleRange works on the negated range
  fs_scale,   \* minScale of the scaleRange call being entered
  fs_stack,   \* minScale of every scaleRange frame waiting for its callee
  fs_probe,   \* the last value passed to isLowerBound, NoProbe before any
  fs_ncalls,  \* how often isLowerBound was called (capped at 1)
  fs_steps,   \* scaleRange calls and returns and loop iterations made so far
  \* the priority queue (pq.ts)
  pq_q,       \* the array q: a sequence of elements <<priority, rest>>
  pq_op,      \* the last call: "none", "push" or "pop"
  pq_ret,     \* what the last pqpop returned (Undefined for an empty queue)
  pq_before,  \* the elements of q before the last call, as a bag
  pq_prev,    \* what the call before returned if it was a pqpop of an element
  \* normalizePolarCutPath (rack.ts)
  np_pc,        \* position: "idle", "populate", "samples", "sweep", "refine", "done"
  np_segments,  \* the segments argument
  np_dadt,      \* the dadt argument: radians of gear rotation per tooth
  np_pos,       \* the index of the loop under way
  np_cuts,      \* the records made for the queue, by identity; refinement writes them
  np_queued,    \* the same records as they were when queued
  np_from,      \* of each record, 0: it is a new array (else the index in segments of the array it is)
  np_pq,        \* the heap pq: elements <<start angle, identity of the record>>
  np_sampleAs,  \* sampleAs
  np_activeCuts,      \* activeCuts, as identities
  np_prevCandidates,  \* prevCandidates, as identities
  np_prevCandidateStartSample,
  np_preva,
  np_bottomCuts,           \* bottomCuts, as identities
  np_bottomCutStartSamples,
  np_bottomCutEndSamples,
  \* biArcApproximate (biarc.ts)
  ba_pc,            \* position: "idle", "scan", "done", "drawn"
  ba_n,             \* samples.length
  ba_error,         \* getApproxError(samples, fromPos, toPos), by <<fromPos, toPos>>
  ba_tolerance,     \* the tolerance argument
  ba_best,          \* best: elements <<count, max error, predecessor>>
  ba_nextScanStart,
  ba_pos,
  ba_ret,           \* the returned samples, by their indices
  ba_drawn,         \* the pen commands of drawing the returned samples
  \* GearCutter.drawToothPath (rack.ts)
  dt_pc,            \* position: "idle", "draw", "done"
  dt_given,         \* the doInitialMove argument as given
  dt_doInitialMove, \* doInitialMove as the loop has it
  dt_pos,           \* the index of the segment to draw
  dt_pen,           \* the commands sent to the pen so far
  \* GearCutter (rack.ts)
  gc_lastX,         \* lastX: <<>> while undefined, else <<x>>
  gc_lastY,         \* lastY, likewise
  gc_lastPointIsCut,
  gc_pointCurves,   \* the keys of pointCurves
  gc_flatCurves,    \* the keys of flatCurves
  gc_path,          \* path
  gc_call,          \* the last call: its name and arguments
  gc_thrown,        \* the message of the error the last call threw, "" if none
  gc_nTeeth,        \* nTeeth, 0 before the cutter is constructed
  gc_poly,          \* the points given since the last accepted moveTo, that one first
  gc_base,          \* path.length at the last accepted moveTo
  \* the output pens: RecordingPen, SvgPen, DxfPen, CanvasPen
  pen_kind,         \* the class of the pen constructed, "none" before
  pen_call,         \* the last call: its name and arguments
  pen_thrown,       \* the message of the error the last call threw, "" if none
  pen_moved,        \* TRUE once moveTo was called on the pen
  rp_xs,            \* RecordingPen.xs
  rp_ys,            \* RecordingPen.ys
  rp_turns,         \* RecordingPen.turns: <<>> for null, else <<turn>>
  rp_played,        \* <<>>, or what the last call of path did, the recording unchanged since
  sv_closePaths,
  sv_havePoint,
  sv_havePath,
  sv_pendingProps,  \* TRUE while pendingProps is not null
  sv_lastx,
  sv_lasty,
  sv_buf,           \* buf: the pieces of text pushed
  dx_closePaths,
  dx_havePoint,
  dx_openPath,      \* the index in entitites of openPath, 0 for null
  dx_lastx,
  dx_lasty,
  dx_entitites,     \* the recorder's entitites: polylines
  cv_lastx,         \* CanvasPen.lastx: <<>> while undefined, else <<x>>
  cv_lasty,
  cv_ctx,           \* the calls made on the canvas context
  \* XFormPen (XFormPen.ts)
  xf_pens,          \* the XFormPen objects made so far, each by its fields
  xf_call,          \* the last call: its name, the pen it was made on, its arguments
  xf_ops,           \* how many calls were made
  \* makeRack (rack.ts)
  rk_props,         \* what makeRack derives from its props: botx, topx, bkw, miny, maxy
  rk_doMove,        \* the doMove argument of the last call of the path function
  rk_pen            \* the commands that call sent to the pen, <<>> before any call

fsVars == <<fs_lo0, fs_hi0, fs_pred, fs_pc, fs_lo, fs_hi, fs_neg, fs_scale,
            fs_stack, fs_probe, fs_ncalls, fs_steps>>

pqVars == <<pq_q, pq_op, pq_ret, pq_before, pq_prev>>

npVars == <<np_pc, np_segments, np_dadt, np_pos, np_cuts, np_queued, np_from, np_pq,
            np_sampleAs,
            np_activeCuts, np_prevCandidates, np_prevCandidateStartSample, np_preva,
            np_bottomCuts, np_bottomCutStartSamples, np_bottomCutEndSamples>>

baVars == <<ba_pc, ba_n, ba_error, ba_tolerance, ba_best, ba_nextScanStart, ba_pos, ba_ret,
            ba_drawn>>
dtVars == <<dt_pc, dt_given, dt_doInitialMove, dt_pos, dt_pen>>
gcVars == <<gc_lastX, gc_lastY, gc_lastPointIsCut, gc_pointCurves, gc_flatCurves, gc_path,
            gc_call, gc_thrown, gc_nTeeth, gc_poly,
            gc_base>>
penVars == <<pen_kind, pen_call, pen_thrown, pen_moved, rp_xs, rp_ys, rp_turns, rp_played,
             sv_closePaths, sv_havePoint, sv_havePath, sv_pendingProps, sv_lastx, sv_lasty,
             sv_buf, dx_closePaths, dx_havePoint, dx_openPath, dx_lastx, dx_lasty,
             dx_entitites, cv_lastx, cv_lasty, cv_ctx>>

xfVars == <<xf_pens, xf_call, xf_ops>>
rkVars == <<rk_props, rk_doMove, rk_pen>>
\* the variables of the components other than the one named
notSearch == <<pqVars, npVars, baVars, dtVars, gcVars, penVars, xfVars, rkVars>>
notQueue == <<fsVars, npVars, baVars, dtVars, gcVars, penVars, xfVars, rkVars>>
notNormalize == <<fsVars, pqVars, baVars, dtVars, gcVars, penVars, xfVars, rkVars>>
notBiarc == <<fsVars, pqVars, npVars, dtVars, gcVars, penVars, xfVars, rkVars>>
notToothPath == <<fsVars, pqVars, npVars, baVars, gcVars, penVars, xfVars, rkVars>>
notCutter == <<fsVars, pqVars, npVars, baVars, dtVars, penVars, xfVars, rkVars>>
notPens == <<fsVars, pqVars, npVars, baVars, dtVars, gcVars, xfVars, rkVars>>
notXForm == <<fsVars, pqVars, npVars, baVars, dtVars, gcVars, penVars, rkVars>>
notRack == <<fsVars, pqVars, npVars, baVars, dtVars, gcVars, penVars, xfVars>>

vars == <<fs_lo0, fs_hi0, fs_pred, fs_pc, fs_lo, fs_hi, fs_neg, fs_scale,
          fs_stack, fs_probe, fs_ncalls, fs_steps,
          pq_q, pq_op, pq_ret, pq_before, pq_prev,
          np_pc, np_segments, np_dadt, np_pos, np_cuts, np_queued, np_from, np_pq,
          np_sampleAs,
          np_activeCuts, np_prevCandidates, np_prevCandidateStartSample, np_preva,
          np_bottomCuts, np_bottomCutStartSamples, np_bottomCutEndSamples,
          ba_pc, ba_n, ba_error, ba_tolerance, ba_best, ba_nextScanStart, ba_pos, ba_ret,
          ba_drawn, dt_pc, dt_given, dt_doInitialMove, dt_pos, dt_pen,
          gc_lastX, gc_lastY, gc_lastPointIsCut, gc_pointCurves, gc_flatCurves, gc_path,
          gc_nTeeth, gc_poly, gc_base,
          gc_call, gc_thrown,
          pen_kind, pen_call, pen_thrown, pen_moved, rp_xs, rp_ys, rp_turns, rp_played,
          sv_closePaths, sv_havePoint, sv_havePath, sv_pendingProps, sv_lastx, sv_lasty,
          sv_buf, dx_closePaths, dx_havePoint, dx_openPath, dx_lastx, dx_lasty,
          dx_entitites, cv_lastx, cv_lasty, cv_ctx,
          xf_pens, xf_call, xf_ops,
          rk_props, rk_doMove, rk_pen>>

(***************************************************************************)
(* Numbers.  A double is modelled by a binary floating-point format with   *)
(* MantBits bits of mantissa, gradual underflow and round-to-nearest-even. *)
(* Every value is counted in units of the smallest subnormal, so a finite  *)
(* float is an integer m * 2^e with m < 2^MantBits; 1.0 is 2^OneExp units. *)
(***************************************************************************)
MantBits == 2
MaxExp == 6
OneExp == 4

RECURSIVE Pow2(_)
Pow2(n) == IF n <= 0 THEN 1 ELSE 2 * Pow2(n - 1)

SetMax(S) == CHOOSE x \in S : \A y \in S : y <= x
SetMin(S) == CHOOSE x \in S : \A y \in S : x <= y
Abs(x) == IF x < 0 THEN -x ELSE x
Sign(x) == IF x < 0 THEN -1 ELSE IF x > 0 THEN 1 ELSE 0

FloatNN == { m * Pow2(e) : m \in 0..(Pow2(MantBits) - 1), e \in 0..MaxExp }
Floats == FloatNN \cup { -f : f \in FloatNN }
MaxFloat == (Pow2(MantBits) - 1) * Pow2(MaxExp)
Infinity == 2 * MaxFloat

\* the mantissa of a non-negative float in its canonical form
RECURSIVE Mant(_)
Mant(f) == IF f < Pow2(MantBits) THEN f ELSE Mant(f \div 2)

\* the float nearest to the non-negative rational n / d, ties to even
RoundNN(n, d) ==
  LET lower == SetMax({f \in FloatNN : f * d <= n})
      ups == {f \in FloatNN : f * d >= n}
  IN  IF ups = {}
      THEN IF 2 * n < (2 * MaxFloat + Pow2(MaxExp)) * d THEN MaxFloat ELSE Infinity
      ELSE LET upper == SetMin(ups)
           IN  IF lower = upper THEN lower
               ELSE IF 2 * n < (lower + upper) * d THEN lower
               ELSE IF 2 * n > (lower + upper) * d THEN upper
               ELSE IF Mant(lower) % 2 = 0 THEN lower ELSE upper

Round(n, d) == Sign(n) * RoundNN(Abs(n), d)

\* the rounded sums and products of all pairs of floats, computed once
SumTable == [x \in Floats |-> [y \in Floats |-> Round(x + y, 1)]]
ProductTable == [x \in Floats |-> [y \in Floats |-> Round(x * y, Pow2(OneExp))]]

FAdd(x, y) == IF x \in Floats /\ y \in Floats THEN SumTable[x][y] ELSE Round(x + y, 1)
FSub(x, y) == FAdd(x, -y)
FMul(x, y) ==
  IF x \in Floats /\ y \in Floats THEN ProductTable[x][y] ELSE Round(x * y, Pow2(OneExp))

Half == Pow2(OneExp - 1)
Quarter == Pow2(OneExp - 2)

NoProbe == Infinity + 1

(***************************************************************************)
(* searchForFloat, getLinearRange and scaleRange.                          *)
(***************************************************************************)

\* the predicates of the model: x <= th for a threshold th, or any test at all
\* (every call may answer either way)
MonoPreds(lo, hi) == { [kind |-> "mono", th |-> t] : t \in {f \in Floats : lo <= f /\ f < hi} }
AnyPred == [kind |-> "any", th |-> 0]

\* isLowerBound(v) may answer b
Answers(v, b) == fs_pred.kind = "any" \/ b = (v <= fs_pred.th)

\* before the call
FSIdle ==
  /\ fs_lo0 = 0 /\ fs_hi0 = 0 /\ fs_pred = AnyPred
  /\ fs_pc = "idle"
  /\ fs_lo = 0 /\ fs_hi = 0
  /\ fs_neg = FALSE
  /\ fs_scale = Quarter
  /\ fs_stack = <<>>
  /\ fs_probe = NoProbe
  /\ fs_ncalls = 0
  /\ fs_steps = 0

\* the call searchForFloat(lo, hi, p)
FSCallWith(lo, hi, p) ==
  /\ UNCHANGED notSearch
  /\ fs_lo0' = lo /\ fs_hi0' = hi /\ fs_pred' = p
  /\ fs_pc' = "start"
  /\ fs_lo' = lo /\ fs_hi' = hi
  /\ UNCHANGED <<fs_neg, fs_scale, fs_stack, fs_probe, fs_ncalls, fs_steps>>

\* a call with lo < hi and a monotone test that holds at lo and fails at hi
FSCallMono ==
  /\ fs_pc = "idle"
  /\ \E lo \in Floats, hi \in Floats :
       /\ lo < hi
       /\ \E p \in MonoPreds(lo, hi) : FSCallWith(lo, hi, p)

\* a call with any lo and hi and any test
FSCallAny ==
  /\ fs_pc = "idle"
  /\ \E lo \in Floats, hi \in Floats : FSCallWith(lo, hi, AnyPred)

\* scaleRange's test for returning the range as it is
ScaleDone(low, high, minScale) == ~(minScale > 0 /\ low < FMul(high, minScale))

InRange_Closed(test, low, high) == test >= low /\ test <= high
\* scaleRange's test for probing at high * minScale
InRange(test, low, high) == test > low /\ test < high

Midpoint_NoHalf(lo, hi) == FAdd(lo, FSub(hi, lo))
\* the bisection's test value
Midpoint(lo, hi) == FAdd(lo, FMul(FSub(hi, lo), Half))

BisectStops_Strict(testVal, lo, hi) == testVal < lo \/ testVal > hi
\* the bisection's test for leaving the loop
BisectStops(testVal, lo, hi) == testVal <= lo \/ testVal >= hi

\* every step counts; MaxSteps only stops a search that would run on for ever
MaxSteps == 30
Step == fs_steps < MaxSteps /\ fs_steps' = fs_steps + 1

\* a call isLowerBound(v)
Called(v) ==
  /\ fs_probe' = v
  /\ fs_ncalls' = 1

\* searchForFloat's entry and getLinearRange's choice of the range to scale
FSStart ==
  /\ fs_pc = "start"
  /\ UNCHANGED notSearch
  /\ UNCHANGED <<fs_lo0, fs_hi0, fs_pred, fs_scale, fs_stack, fs_steps>>
  /\ IF ~(fs_lo < fs_hi)
     THEN /\ fs_pc' = "done"
          /\ UNCHANGED <<fs_lo, fs_hi, fs_neg, fs_probe, fs_ncalls>>
     ELSE /\ fs_pc' = "scale"
          /\ IF fs_lo < 0
             THEN IF fs_hi > 0
                  THEN \E b \in BOOLEAN :
                         /\ Answers(0, b)
                         /\ Called(0)
                         /\ IF b
                            THEN fs_lo' = 0 /\ fs_hi' = fs_hi /\ fs_neg' = FALSE
                            ELSE fs_lo' = 0 /\ fs_hi' = -fs_lo /\ fs_neg' = TRUE
                  ELSE /\ fs_lo' = -fs_hi /\ fs_hi' = -fs_lo /\ fs_neg' = TRUE
                       /\ UNCHANGED <<fs_probe, fs_ncalls>>
             ELSE UNCHANGED <<fs_lo, fs_hi, fs_neg, fs_probe, fs_ncalls>>

\* scaleRange's entry: return the range as it is, or call with minScale squared
FSScaleCall ==
  /\ fs_pc = "scale"
  /\ UNCHANGED notSearch
  /\ Step
  /\ UNCHANGED <<fs_lo0, fs_hi0, fs_pred, fs_lo, fs_hi, fs_neg, fs_probe, fs_ncalls>>
  /\ IF ScaleDone(fs_lo, fs_hi, fs_scale)
     THEN fs_pc' = "unwind" /\ UNCHANGED <<fs_scale, fs_stack>>
     ELSE /\ fs_stack' = Append(fs_stack, fs_scale)
          /\ fs_scale' = FMul(fs_scale, fs_scale)
          /\ fs_pc' = "scale"

\* scaleRange after its callee returned: the probe at high * minScale; with no
\* frame left, getLinearRange negates a negated range and the bisection starts
FSScaleReturn ==
  /\ fs_pc = "unwind"
  /\ UNCHANGED notSearch
  /\ Step
  /\ UNCHANGED <<fs_lo0, fs_hi0, fs_pred, fs_scale>>
  /\ IF fs_stack = <<>>
     THEN /\ fs_pc' = "bisect"
          /\ IF fs_neg
             THEN fs_lo' = -fs_hi /\ fs_hi' = -fs_lo
             ELSE UNCHANGED <<fs_lo, fs_hi>>
          /\ fs_neg' = FALSE
          /\ UNCHANGED <<fs_stack, fs_probe, fs_ncalls>>
     ELSE LET minScale == fs_stack[Len(fs_stack)]
              test == FMul(fs_hi, minScale)
              arg == IF fs_neg THEN -test ELSE test
          IN  /\ fs_stack' = SubSeq(fs_stack, 1, Len(fs_stack) - 1)
              /\ fs_pc' = "unwind"
              /\ UNCHANGED fs_neg
              /\ IF InRange(test, fs_lo, fs_hi)
                 THEN \E b \in BOOLEAN :
                        /\ Answers(arg, b)
                        /\ Called(arg)
                        /\ IF (IF fs_neg THEN ~b ELSE b)
                           THEN fs_lo' = test /\ UNCHANGED fs_hi
                           ELSE fs_hi' = test /\ UNCHANGED fs_lo
                 ELSE UNCHANGED <<fs_lo, fs_hi, fs_probe, fs_ncalls>>

\* one iteration of the bisection loop
FSBisect ==
  /\ fs_pc = "bisect"
  /\ UNCHANGED notSearch
  /\ Step
  /\ UNCHANGED <<fs_lo0, fs_hi0, fs_pred, fs_neg, fs_scale, fs_stack>>
  /\ LET testVal == Midpoint(fs_lo, fs_hi)
     IN  IF BisectStops(testVal, fs_lo, fs_hi)
         THEN fs_pc' = "done" /\ UNCHANGED <<fs_lo, fs_hi, fs_probe, fs_ncalls>>
         ELSE \E b \in BOOLEAN :
                /\ Answers(testVal, b)
                /\ Called(testVal)
                /\ fs_pc' = "bisect"
                /\ IF b
                   THEN fs_lo' = testVal /\ UNCHANGED fs_hi
                   ELSE fs_hi' = testVal /\ UNCHANGED fs_lo

FSNext == FSStart \/ FSScaleCall \/ FSScaleReturn \/ FSBisect

(***************************************************************************)
(* The priority queue: pqpush and pqpop on an array kept as a binary heap. *)
(***************************************************************************)
MaxKey == 2
MaxQueue == 5
Tags == {"a", "b"}
PQElements == (0..MaxKey) \X Tags
Undefined == <<-1, "undefined">>

SeqToBag(q) ==
  LET els == {q[i] : i \in 1..Len(q)}
  IN  [e \in els |-> Cardinality({i \in 1..Len(q) : q[i] = e})]

\* q with the elements at the 0-based positions i and j exchanged
Swap(q, i, j) == [q EXCEPT ![i + 1] = q[j + 1], ![j + 1] = q[i + 1]]

\* parpos = ((pos - 1) / 2) | 0
Parent(pos) == (pos - 1) \div 2

\* pqpush's loop: the element at pos rises while its parent's key is greater
RECURSIVE SiftUp(_, _)
SiftUp(q, pos) ==
  IF pos > 0
  THEN LET parpos == Parent(pos)
       IN  IF q[parpos + 1][1] <= q[pos + 1][1]
           THEN q
           ELSE SiftUp(Swap(q, parpos, pos), parpos)
  ELSE q

MinPos_LeftOnly(q, pos, leftpos) ==
  IF q[pos + 1][1] > q[leftpos + 1][1] THEN leftpos ELSE pos
\* the position, among pos and its children, of the smallest key
MinPos(q, pos, leftpos) ==
  LET min1 == IF q[pos + 1][1] > q[leftpos + 1][1] THEN leftpos ELSE pos
      rightpos == leftpos + 1
  IN  IF rightpos < Len(q) /\ q[min1 + 1][1] > q[rightpos + 1][1]
      THEN rightpos ELSE min1

\* pqpop's loop: the element at pos sinks below its smallest child
RECURSIVE SiftDown(_, _, _)
SiftDown(q, pos, leftpos) ==
  IF leftpos < Len(q)
  THEN LET minpos == MinPos(q, pos, leftpos)
       IN  IF minpos = pos
           THEN q
           ELSE SiftDown(Swap(q, pos, minpos), minpos, minpos * 2 + 1)
  ELSE q

PQIdle ==
  /\ pq_q = <<>>
  /\ pq_op = "none"
  /\ pq_ret = Undefined
  /\ pq_before = EmptyBag
  /\ pq_prev = Undefined

\* pqpush(q, val)
PQPush ==
  /\ Len(pq_q) < MaxQueue
  /\ \E val \in PQElements :
       pq_q' = SiftUp(Append(pq_q, val), Len(pq_q))
  /\ pq_op' = "push"
  /\ UNCHANGED notQueue
  /\ pq_before' = SeqToBag(pq_q)
  /\ pq_prev' = Undefined
  /\ UNCHANGED pq_ret

\* the heap that pqpop leaves, for a heap of at least one element
AfterPop(q) ==
  IF Len(q) < 2
  THEN <<>>
  ELSE SiftDown([SubSeq(q, 1, Len(q) - 1) EXCEPT ![1] = q[Len(q)]], 0, 1)

\* pqpop(q)
PQPop ==
  /\ UNCHANGED notQueue
  /\ pq_op' = "pop"
  /\ pq_before' = SeqToBag(pq_q)
  /\ pq_prev' = IF pq_op = "pop" THEN pq_ret ELSE Undefined
  /\ IF Len(pq_q) = 0
     THEN pq_ret' = Undefined /\ UNCHANGED pq_q
     ELSE pq_ret' = pq_q[1] /\ pq_q' = AfterPop(pq_q)

PQNext == PQPush \/ PQPop

(***************************************************************************)
(* normalizePolarCutPath.  Angles are counted on a grid: the avoidance     *)
(* margin of the sample points is Avoidance grid units, a tooth is         *)
(* 2 * HalfTooth units and the sample spacing is SampleStep units (the     *)
(* program's 1e-6, 1 and 0.001 teeth, with the ratios reduced so that a    *)
(* sweep has tens of sample points, not thousands).  Sums and differences  *)
(* of grid angles are exact; a quotient is rounded to the nearest grid     *)
(* angle, ties to even.  Radii are counted in halves of BOTTOM_TOLERANCE,  *)
(* and from one grid angle to the next the radius of a curve changes by no *)
(* more than BOTTOM_TOLERANCE: the curves are continuous and the program's *)
(* angles are doubles.                                                     *)
(***************************************************************************)
Avoidance == 2
SampleStep == 4
HalfTooth == 12
Tooth == 2 * HalfTooth
BOTTOM_TOLERANCE == 2
Null == -1

\* the integer nearest to n / d (d > 0), ties to even
GRound(n, d) ==
  LET q == n \div d
      r == n - q * d
  IN  IF 2 * r < d THEN q
      ELSE IF 2 * r > d THEN q + 1
      ELSE IF q % 2 = 0 THEN q ELSE q + 1

\* Cut curves.  A ConstantRadiusCut has the radius r everywhere.  A CircleCut is
\* kept as its shape only: the radius r at theta = 0, where the cutting point
\* is closest to the axis, growing by k per unit of |theta|, and the thetas of
\* its reversal, if it has one.
ConstantRadiusCut(r) == [kind |-> "const", r |-> r, k |-> 0, reversal |-> {}]
CircleCut(r, k, rev) == [kind |-> "circle", r |-> r, k |-> k, reversal |-> rev]

\* curve.getR(theta)
GetR(curve, theta) ==
  IF curve.kind = "const" THEN curve.r ELSE curve.r + curve.k * Abs(theta)

\* curve.getDiscontinuityThetas(minTheta, maxTheta)
GetDiscontinuityThetas(curve, minTheta, maxTheta) ==
  {theta \in curve.reversal : theta > minTheta /\ theta < maxTheta}

\* cut[2].getR((a - cut[3]) * dadt)
CutR(cut, a) == GetR(cut[3], (a - cut[4]) * np_dadt)

\* pqpush(pq, [sa, ea, curve, rot]): the record gets the next identity
PushCut(st, sa, ea, curve, rot) ==
  LET id == Len(st.cuts) + 1
  IN  [cuts |-> Append(st.cuts, <<sa, ea, curve, rot>>),
       pq |-> SiftUp(Append(st.pq, <<sa, id>>), Len(st.pq))]

PushedArray_Input(pos) == pos
\* pqpush(pq, [sa, ea, curve, rot]): what is pushed while segments[pos] is
\* read is a new array, not the array segments[pos]
PushedArray(pos) == 0

WindowEnd_Inclusive(ea) == ea >= HalfTooth
\* the test of the splitting loop: ea > 0.5
BeyondWindow(ea) == ea > HalfTooth

RECURSIVE SplitPush_SameRot(_, _, _, _, _)
SplitPush_SameRot(st, sa, ea, curve, rot) ==
  IF BeyondWindow(ea)
  THEN SplitPush_SameRot(PushCut(st, sa, HalfTooth, curve, rot), -HalfTooth, ea - Tooth,
                         curve, rot)
  ELSE PushCut(st, sa, ea, curve, rot)

\* the splitting loop and the last push
RECURSIVE SplitPush(_, _, _, _, _)
SplitPush(st, sa, ea, curve, rot) ==
  IF BeyondWindow(ea)
  THEN SplitPush(PushCut(st, sa, HalfTooth, curve, rot), -HalfTooth, ea - Tooth, curve,
                 rot - Tooth)
  ELSE PushCut(st, sa, ea, curve, rot)

\* the body of the loop that populates the queue, for one input segment
PopulateOne(st, cut) ==
  IF cut[2] = cut[1]
  THEN st
  ELSE LET sa0 == IF cut[2] < cut[1] THEN cut[2] ELSE cut[1]
           ea0 == IF cut[2] < cut[1] THEN cut[1] ELSE cut[2]
           wrap == sa0 < -HalfTooth \/ sa0 >= HalfTooth
           \* Math.floor(sa + 0.5), in grid units
           flr == IF wrap THEN Tooth * ((sa0 + HalfTooth) \div Tooth) ELSE 0
       IN  SplitPush(st, sa0 - flr, ea0 - flr, cut[3], cut[4] - flr)

NPIdle ==
  /\ np_pc = "idle"
  /\ np_segments = <<>>
  /\ np_dadt = 1
  /\ np_pos = 0
  /\ np_cuts = <<>>
  /\ np_queued = <<>>
  /\ np_from = <<>>
  /\ np_pq = <<>>
  /\ np_sampleAs = <<>>
  /\ np_activeCuts = <<>>
  /\ np_prevCandidates = <<>>
  /\ np_prevCandidateStartSample = -HalfTooth
  /\ np_preva = -HalfTooth
  /\ np_bottomCuts = <<>>
  /\ np_bottomCutStartSamples = <<>>
  /\ np_bottomCutEndSamples = <<>>

\* the call normalizePolarCutPath(segments, dadt)
NPCallWith(segments, dadt) ==
  /\ np_pc = "idle"
  /\ np_pc' = "populate"
  /\ np_segments' = segments
  /\ np_dadt' = dadt
  /\ np_pos' = 1
  /\ UNCHANGED <<np_cuts, np_queued, np_from, np_pq, np_sampleAs, np_activeCuts,
                 np_prevCandidates,
                 np_prevCandidateStartSample, np_preva, np_bottomCuts,
                 np_bottomCutStartSamples, np_bottomCutEndSamples>>
  /\ UNCHANGED notNormalize

\* one turn of the loop that populates the queue; after the last, the early
\* return for an empty queue
NPPopulate ==
  /\ np_pc = "populate"
  /\ UNCHANGED notNormalize
  /\ UNCHANGED <<np_segments, np_dadt, np_sampleAs, np_activeCuts, np_prevCandidates,
                 np_prevCandidateStartSample, np_preva, np_bottomCuts,
                 np_bottomCutStartSamples, np_bottomCutEndSamples>>
  /\ IF np_pos <= Len(np_segments)
     THEN LET st == PopulateOne([cuts |-> np_cuts, pq |-> np_pq], np_segments[np_pos])
          IN  /\ np_cuts' = st.cuts
              /\ np_queued' = st.cuts
              /\ np_from' = np_from \o [k \in 1..(Len(st.cuts) - Len(np_cuts)) |->
                                          PushedArray(np_pos)]
              /\ np_pq' = st.pq
              /\ np_pos' = np_pos + 1
              /\ np_pc' = "populate"
     ELSE /\ np_pc' = IF Len(np_pq) = 0 THEN "done" ELSE "samples"
          /\ UNCHANGED <<np_cuts, np_queued, np_from, np_pq, np_pos>>

\* searchForFloat on grid angles: x * 0.5 and high * minScale are rounded to the
\* grid, minScale is 2^-k, and isLowerBound is the function P of the angle.
\* Beyond k = 20 the product is less than half a grid unit and rounds to 0.
ScaledHigh(high, k) == IF k > 20 THEN 0 ELSE GRound(high, Pow2(k))
IsLowerBound(P, neg, n) == IF neg THEN ~P[-n] ELSE P[n]

RECURSIVE ScaleRange(_, _, _, _, _)
ScaleRange(low, high, k, P, neg) ==
  IF ~(low < ScaledHigh(high, k))
  THEN <<low, high>>
  ELSE LET range == ScaleRange(low, high, 2 * k, P, neg)
           test == ScaledHigh(range[2], k)
       IN  IF test > range[1] /\ test < range[2]
           THEN IF IsLowerBound(P, neg, test)
                THEN <<test, range[2]>>
                ELSE <<range[1], test>>
           ELSE range

Negated(range) == <<-range[2], -range[1]>>

GetLinearRange(low, high, P) ==
  IF low < 0
  THEN IF high > 0
       THEN IF P[0]
            THEN ScaleRange(0, high, 2, P, FALSE)
            ELSE Negated(ScaleRange(0, -low, 2, P, TRUE))
       ELSE Negated(ScaleRange(-high, -low, 2, P, TRUE))
  ELSE ScaleRange(low, high, 2, P, FALSE)

RECURSIVE Bisect(_, _, _)
Bisect(lo, hi, P) ==
  LET testVal == lo + GRound(hi - lo, 2)
  IN  IF testVal <= lo \/ testVal >= hi
      THEN <<lo, hi>>
      ELSE IF P[testVal] THEN Bisect(testVal, hi, P) ELSE Bisect(lo, testVal, P)

SearchForFloat(lo, hi, P) ==
  IF ~(lo < hi)
  THEN <<lo, hi>>
  ELSE LET range == GetLinearRange(lo, hi, P)
       IN  Bisect(range[1], range[2], P)

\* [...set].sort((a, b) => a - b)
RECURSIVE SortedSeq(_)
SortedSeq(S) ==
  IF S = {} THEN <<>> ELSE LET m == SetMin(S) IN <<m>> \o SortedSeq(S \ {m})

\* the event angles of the queued record cut
EventPoints(cut) ==
  {cut[1], cut[2]}
  \cup {GRound(theta, np_dadt) + cut[4] :
          theta \in GetDiscontinuityThetas(cut[3], (cut[1] - cut[4]) * np_dadt,
                                           (cut[2] - cut[4]) * np_dadt)}

RECURSIVE SamplePoints_UpToEvent(_, _, _)
SamplePoints_UpToEvent(eventAs, rangeStart, sampleAs) ==
  IF eventAs = <<>>
  THEN sampleAs
  ELSE LET a == Head(eventAs)
           width == a - rangeStart
           n == (width \div SampleStep) + 1
           spread == [j \in 1..(n + 1) |-> rangeStart + GRound(width * (j - 1), n)]
       IN  SamplePoints_UpToEvent(Tail(eventAs), a + Avoidance,
                                  IF a - Avoidance >= rangeStart
                                  THEN sampleAs \o spread
                                  ELSE sampleAs)

\* the loop over eventAs that fills sampleAs
RECURSIVE SamplePoints(_, _, _)
SamplePoints(eventAs, rangeStart, sampleAs) ==
  IF eventAs = <<>>
  THEN sampleAs
  ELSE LET a == Head(eventAs)
           rangeEnd == a - Avoidance
           width == rangeEnd - rangeStart
           middle == IF width < Avoidance
                     THEN <<rangeStart + GRound(width, 2)>> ELSE <<>>
           n == (width \div SampleStep) + 1
           spread == [j \in 1..(n + 1) |-> rangeStart + GRound(width * (j - 1), n)]
       IN  SamplePoints(Tail(eventAs), a + Avoidance,
                        IF a - Avoidance >= rangeStart
                        THEN sampleAs \o middle \o spread
                        ELSE sampleAs)

\* getMinR(cuts, dadt, a), cuts given by identity
GetMinR(cuts, ids, a) ==
  IF Len(ids) = 0 THEN Null
  ELSE SetMin({CutR(cuts[ids[j]], a) : j \in 1..Len(ids)})

\* getBottomSegs(cuts, dadt, a, bottom), cuts given by identity
GetBottomSegs(cuts, ids, a, bottom) ==
  SelectSeq(ids, LAMBDA id : cuts[id][2] >= a /\ CutR(cuts[id], a) <= bottom + BOTTOM_TOLERANCE)

PopUpTo_One(pq, activeCuts, cura) ==
  IF Len(pq) > 0 /\ pq[1][1] <= cura
  THEN [pq |-> AfterPop(pq), activeCuts |-> Append(activeCuts, pq[1][2])]
  ELSE [pq |-> pq, activeCuts |-> activeCuts]

\* while (pq.length && pq[0][0] <= cura) activeCuts.push(pqpop(pq))
RECURSIVE PopUpTo(_, _, _)
PopUpTo(pq, activeCuts, cura) ==
  IF Len(pq) > 0 /\ pq[1][1] <= cura
  THEN PopUpTo(AfterPop(pq), Append(activeCuts, pq[1][2]), cura)
  ELSE [pq |-> pq, activeCuts |-> activeCuts]

\* the sample points are computed
NPSamples ==
  /\ np_pc = "samples"
  /\ UNCHANGED notNormalize
  /\ np_sampleAs' =
       SamplePoints(SortedSeq(UNION {EventPoints(np_cuts[np_pq[j][2]]) : j \in 1..Len(np_pq)}),
                    -HalfTooth, <<>>)
  /\ np_pc' = "sweep"
  /\ np_pos' = 1
  /\ UNCHANGED <<np_segments, np_dadt, np_cuts, np_queued, np_from, np_pq, np_activeCuts,
                 np_prevCandidates,
                 np_prevCandidateStartSample, np_preva, np_bottomCuts,
                 np_bottomCutStartSamples, np_bottomCutEndSamples>>

\* one turn of the sweep over sampleAs
NPSweep ==
  /\ np_pc = "sweep"
  /\ np_pos <= Len(np_sampleAs)
  /\ UNCHANGED notNormalize
  /\ UNCHANGED <<np_segments, np_dadt, np_cuts, np_queued, np_from, np_sampleAs, np_pc>>
  /\ np_pos' = np_pos + 1
  /\ LET cura == np_sampleAs[np_pos]
         popped == PopUpTo(np_pq, np_activeCuts, cura)
         activeCuts == SelectSeq(popped.activeCuts, LAMBDA id : np_cuts[id][2] > cura)
         curMin == GetMinR(np_cuts, activeCuts, cura)
         had == Len(np_prevCandidates) > 0
         survivors == IF curMin = Null THEN <<>>
                      ELSE GetBottomSegs(np_cuts, np_prevCandidates, cura, curMin)
         commit == had /\ Len(survivors) = 0
         candidates == IF had THEN survivors ELSE np_prevCandidates
         reseed == Len(candidates) = 0 /\ curMin # Null
     IN  /\ np_pq' = popped.pq
         /\ np_activeCuts' = activeCuts
         /\ np_bottomCuts' = IF commit THEN Append(np_bottomCuts, np_prevCandidates[1])
                             ELSE np_bottomCuts
         /\ np_bottomCutStartSamples' =
              IF commit THEN Append(np_bottomCutStartSamples, np_prevCandidateStartSample)
              ELSE np_bottomCutStartSamples
         /\ np_bottomCutEndSamples' =
              IF commit THEN Append(np_bottomCutEndSamples, np_preva)
              ELSE np_bottomCutEndSamples
         /\ np_preva' = IF had THEN cura ELSE np_preva
         /\ np_prevCandidates' = IF reseed THEN GetBottomSegs(np_cuts, activeCuts, cura, curMin)
                                 ELSE candidates
         /\ np_prevCandidateStartSample' = IF reseed THEN cura ELSE np_prevCandidateStartSample

\* after the sweep: the candidates still alive are committed
NPCommit ==
  /\ np_pc = "sweep"
  /\ np_pos > Len(np_sampleAs)
  /\ UNCHANGED notNormalize
  /\ UNCHANGED <<np_segments, np_dadt, np_cuts, np_queued, np_from, np_pq, np_sampleAs,
                 np_activeCuts, np_prevCandidates, np_prevCandidateStartSample, np_preva>>
  /\ np_pc' = "refine"
  /\ np_pos' = 1
  /\ IF Len(np_prevCandidates) > 0
     THEN /\ np_bottomCuts' = Append(np_bottomCuts, np_prevCandidates[1])
          /\ np_bottomCutStartSamples' =
               Append(np_bottomCutStartSamples, np_prevCandidateStartSample)
          /\ np_bottomCutEndSamples' = Append(np_bottomCutEndSamples, np_preva)
     ELSE UNCHANGED <<np_bottomCuts, np_bottomCutStartSamples, np_bottomCutEndSamples>>

\* the input after a write of one field of a record, should the record be one
\* of the arrays of the input
Written(segments, from, field, value) ==
  IF from = 0 THEN segments ELSE [segments EXCEPT ![from][field] = value]

\* the records after locut[1] = loa; hicut[0] = hia
Trimmed(cuts, lo, hi, loa, hia) ==
  LET first == [cuts EXCEPT ![lo] = [@ EXCEPT ![2] = loa]]
  IN  [first EXCEPT ![hi] = [@ EXCEPT ![1] = hia]]

\* one turn of the loop over consecutive bottom cuts, then the return
NPRefine ==
  /\ np_pc = "refine"
  /\ UNCHANGED notNormalize
  /\ UNCHANGED <<np_dadt, np_queued, np_from, np_pq, np_sampleAs, np_activeCuts,
                 np_prevCandidates, np_prevCandidateStartSample, np_preva, np_bottomCuts,
                 np_bottomCutStartSamples, np_bottomCutEndSamples>>
  /\ IF np_pos < Len(np_bottomCuts)
     THEN LET lo == np_bottomCuts[np_pos]
              hi == np_bottomCuts[np_pos + 1]
              locut == np_cuts[lo]
              hicut == np_cuts[hi]
              loa0 == SetMax({np_bottomCutStartSamples[np_pos], hicut[1]})
              hia0 == SetMin({np_bottomCutStartSamples[np_pos + 1], locut[2]})
              found == SearchForFloat(loa0, hia0,
                                      [testa \in loa0..hia0 |->
                                         CutR(locut, testa) < CutR(hicut, testa)])
              loa == found[1]
              hia == IF CutR(locut, loa) = CutR(hicut, found[2]) THEN loa ELSE found[2]
          IN  /\ np_cuts' = IF locut[2] > hicut[1] THEN Trimmed(np_cuts, lo, hi, loa, hia)
                            ELSE np_cuts
              /\ np_segments' = IF locut[2] > hicut[1]
                                THEN Written(Written(np_segments, np_from[lo], 2, loa),
                                             np_from[hi], 1, hia)
                                ELSE np_segments
              /\ np_pos' = np_pos + 1
              /\ np_pc' = "refine"
     ELSE /\ np_pc' = "done"
          /\ UNCHANGED <<np_cuts, np_segments, np_pos>>

\* The calls.  Up to MaxSegments segments drawn from SegmentKinds (a span of the
\* window, a curve and its rotation), in either order ...
MaxSegments == 3
Spans == <<<<-HalfTooth, HalfTooth>>, <<-HalfTooth, 0>>, <<0, HalfTooth>>,
           <<-(HalfTooth \div 2), HalfTooth \div 2>>>>
RotatedCurves == <<<<ConstantRadiusCut(8), 0>>, <<ConstantRadiusCut(2), 0>>,
                   <<CircleCut(0, 1, {}), -(HalfTooth \div 2)>>,
                   <<CircleCut(0, 1, {}), HalfTooth \div 2>>,
                   <<CircleCut(4, 1, {-5, 5}), 0>>>>
DadtValues == {1, 2}
SegmentKinds ==
  [n \in 1..(Len(Spans) * Len(RotatedCurves)) |->
     LET span == Spans[((n - 1) \div Len(RotatedCurves)) + 1]
         rc == RotatedCurves[((n - 1) % Len(RotatedCurves)) + 1]
     IN  <<span[1], span[2], rc[1], rc[2]>>]

NPCallKinds ==
  /\ np_pc = "idle"
  /\ \E n \in 0..MaxSegments :
       \E idx \in [1..n -> 1..Len(SegmentKinds)] :
         /\ \A j \in 1..(n - 1) : idx[j] <= idx[j + 1]
         /\ \E dadt \in DadtValues, backwards \in BOOLEAN :
              NPCallWith([j \in 1..n |->
                            SegmentKinds[idx[IF backwards THEN n + 1 - j ELSE j]]], dadt)

\* ... or one segment with any start, any width (negative, zero, more than two
\* teeth) and a rotation
MaxTurns == 2
NPCallOne ==
  /\ np_pc = "idle"
  /\ \E sa \in (-MaxTurns * HalfTooth)..(MaxTurns * HalfTooth) :
       \E width \in (-MaxTurns * Tooth - 1)..(MaxTurns * Tooth + 1) :
         NPCallWith(<<<<sa, sa + width, ConstantRadiusCut(2), 3>>>>, 1)

\* ... or a constant-radius cut and a steep cut curve turned to any angle of the
\* window, each over one of the spans
NPCallPair ==
  /\ np_pc = "idle"
  /\ \E i, j \in 1..Len(Spans), rot \in (-HalfTooth)..HalfTooth :
       NPCallWith(<<<<Spans[i][1], Spans[i][2], ConstantRadiusCut(3), 0>>,
                    <<Spans[j][1], Spans[j][2], CircleCut(0, BOTTOM_TOLERANCE, {}), rot>>>>, 1)

NPNext == NPPopulate \/ NPSamples \/ NPSweep \/ NPCommit \/ NPRefine

\* the returned segments: bottomCuts, each record as it is at the return
Returned == [j \in 1..Len(np_bottomCuts) |-> np_cuts[np_bottomCuts[j]]]

(***************************************************************************)
(* biArcApproximate.  The samples are known by their indices 0..n-1 and    *)
(* the geometry by its outcome: the value getApproxError returns for each  *)
(* pair of samples with a sample between them.  That value is a distance,  *)
(* or NaN: biArcSplit divides by the length of the chord, which is 0 when  *)
(* the two samples are at the same point, and by a sum that is 0 when both *)
(* tangents lie along the chord.                                           *)
(***************************************************************************)
MaxSamples == 5
MaxError == 2
NaN == -1
ErrorValues == (0..MaxError) \cup {NaN}

Gt_OrEqual(a, b) == a # NaN /\ b # NaN /\ a >= b
\* a > b, a < b and Math.max(a, b) on numbers that may be NaN
Gt(a, b) == a # NaN /\ b # NaN /\ a > b
Lt(a, b) == a # NaN /\ b # NaN /\ a < b
MathMax(a, b) == IF a = NaN \/ b = NaN THEN NaN ELSE IF a > b THEN a ELSE b

\* the pairs <<fromPos, toPos>> for which getApproxError is defined by a sample
\* between them
FarPairs(n) == {pr \in (0..(n - 1)) \X (0..(n - 1)) : pr[1] + 1 < pr[2]}

\* the scan for position pos from testPos on; st holds nextScanStart, bestCount,
\* bestMaxError and bestPred
RECURSIVE Scan(_, _, _, _, _, _)
Scan(best, error, tolerance, pos, testPos, st) ==
  IF ~(testPos < pos - 1)
  THEN st
  ELSE LET err == error[<<testPos, pos>>]
           seen == IF testPos < st.nextScanStart
                   THEN [st EXCEPT !.nextScanStart = testPos] ELSE st
           count == best[testPos + 1][1] + 1
           maxError == MathMax(best[testPos + 1][2], err)
           better == IF count < seen.bestCount \/ Lt(maxError, seen.bestMaxError)
                     THEN [seen EXCEPT !.bestCount = count, !.bestMaxError = maxError,
                                       !.bestPred = testPos]
                     ELSE seen
       IN  IF Gt(err, tolerance)
           THEN Scan(best, error, tolerance, pos, testPos + 1, st)
           ELSE IF count > seen.bestCount
           THEN seen
           ELSE IF Lt(err, maxError)
           THEN better
           ELSE Scan(best, error, tolerance, pos, testPos + 1, better)

\* the walk along the predecessors from index i, reversed
RECURSIVE Walk(_, _)
Walk(best, i) == IF i < 0 THEN <<>> ELSE Append(Walk(best, best[i + 1][3]), i)

BAIdle ==
  /\ ba_pc = "idle"
  /\ ba_n = 0
  /\ ba_error = <<>>
  /\ ba_tolerance = 0
  /\ ba_best = <<>>
  /\ ba_nextScanStart = 0
  /\ ba_pos = 0
  /\ ba_ret = <<>>
  /\ ba_drawn = <<>>

\* the call biArcApproximate(samples, tolerance), samples not empty
BACall ==
  /\ ba_pc = "idle"
  /\ \E n \in 1..MaxSamples, tolerance \in 0..MaxError :
       \E error \in [FarPairs(n) -> ErrorValues] :
         /\ ba_n' = n
         /\ ba_tolerance' = tolerance
         /\ ba_error' = error
  /\ ba_pc' = "scan"
  /\ ba_best' = <<<<0, 0, -1>>>>
  /\ ba_nextScanStart' = 0
  /\ ba_pos' = 1
  /\ UNCHANGED <<ba_ret, ba_drawn>>
  /\ UNCHANGED notBiarc

\* one turn of the loop over pos
BAScan ==
  /\ ba_pc = "scan"
  /\ ba_pos < ba_n
  /\ UNCHANGED notBiarc
  /\ UNCHANGED <<ba_pc, ba_n, ba_error, ba_tolerance, ba_ret, ba_drawn>>
  /\ LET st == Scan(ba_best, ba_error, ba_tolerance, ba_pos, ba_nextScanStart,
                    [nextScanStart |-> ba_pos - 1,
                     bestCount |-> ba_best[ba_pos][1] + 1,
                     bestMaxError |-> ba_best[ba_pos][2],
                     bestPred |-> ba_pos - 1])
     IN  /\ ba_best' = Append(ba_best, <<st.bestCount, st.bestMaxError, st.bestPred>>)
         /\ ba_nextScanStart' = st.nextScanStart
  /\ ba_pos' = ba_pos + 1

\* after the loop: the walk back from the last sample, and the return
BAReturn ==
  /\ ba_pc = "scan"
  /\ ~(ba_pos < ba_n)
  /\ UNCHANGED notBiarc
  /\ UNCHANGED <<ba_n, ba_error, ba_tolerance, ba_best, ba_nextScanStart, ba_pos, ba_drawn>>
  /\ ba_ret' = Walk(ba_best, Len(ba_best) - 1)
  /\ ba_pc' = "done"

\* drawBiArc(pen, pt0, pt1): two arcs, to the joint and to pt1
DrawBiArc(fromPos, toPos) ==
  <<[op |-> "arcTo", to |-> <<fromPos, toPos>>], [op |-> "arcTo", to |-> toPos]>>

\* for (i = 1; i < samples.length; ++i) drawBiArc(pen, samples[i - 1], samples[i])
RECURSIVE DrawBiArcs(_, _)
DrawBiArcs(samples, i) ==
  IF i < Len(samples)
  THEN DrawBiArc(samples[i], samples[i + 1]) \o DrawBiArcs(samples, i + 1)
  ELSE <<>>

\* the caller draws the samples that biArcApproximate returned
BADraw ==
  /\ ba_pc = "done"
  /\ UNCHANGED notBiarc
  /\ UNCHANGED <<ba_n, ba_error, ba_tolerance, ba_best, ba_nextScanStart, ba_pos, ba_ret>>
  /\ ba_drawn' = DrawBiArcs(ba_ret, 1)
  /\ ba_pc' = "drawn"

BANext == BACall \/ BAScan \/ BAReturn \/ BADraw

(***************************************************************************)
(* GearCutter.drawToothPath: the envelope that normalizePolarCutPath       *)
(* returned is drawn segment by segment.  A pen command is kept as its     *)
(* name, and whether it is the first command of a call of drawSegment that *)
(* draws (a sub-draw).  The XFormPen around the pen passes every command   *)
(* on under the same name.                                                 *)
(***************************************************************************)
\* Math.PI * 0.6, in grid units of theta
SplitTurn == 10
MaxBiArcs == 2

FirstCommand_AlwaysMove(doInitialMove) == [op |-> "moveTo", first |-> TRUE]
\* if (doInitialMove) pen.moveTo(...) else pen.arcTo(..., 0)
FirstCommand(doInitialMove) ==
  [op |-> IF doInitialMove THEN "moveTo" ELSE "arcTo", first |-> TRUE]
ArcTo == [op |-> "arcTo", first |-> FALSE]

\* ConstantRadiusCut.drawSegment
RECURSIVE ConstantDrawSegment(_, _, _)
ConstantDrawSegment(thetaFrom, thetaTo, doInitialMove) ==
  IF thetaFrom - thetaTo > SplitTurn
  THEN LET mid == thetaFrom + GRound(thetaTo - thetaFrom, 2)
       IN  ConstantDrawSegment(thetaFrom, mid, doInitialMove)
             \o ConstantDrawSegment(mid, thetaTo, FALSE)
  ELSE <<FirstCommand(doInitialMove), ArcTo>>

\* the theta of the closest approach of a CircleCut
ThetaMidpoint(curve) == 0

\* the end of CircleCut.drawSegment: the move or arc to pt0, then two arcs for
\* each of the biArcs biarcs between the approximated samples
CircleDrawBase(doInitialMove, biArcs) ==
  <<FirstCommand(doInitialMove)>> \o [j \in 1..(2 * biArcs) |-> ArcTo]

\* CircleCut.drawSegment
RECURSIVE CircleDrawSegment(_, _, _, _, _)
CircleDrawSegment(curve, thetaFrom, thetaTo, doInitialMove, biArcs) ==
  LET upTo(theta) ==
        IF thetaFrom < theta
        THEN CircleDrawSegment(curve, thetaFrom, theta, doInitialMove, biArcs)
               \o CircleDrawBase(FALSE, biArcs)
        ELSE CircleDrawBase(doInitialMove, biArcs)
  IN  IF curve.reversal # {}
      THEN IF thetaTo > SetMax(curve.reversal) THEN upTo(SetMax(curve.reversal))
           ELSE IF thetaTo > SetMin(curve.reversal) THEN upTo(SetMin(curve.reversal))
           ELSE CircleDrawBase(doInitialMove, biArcs)
      ELSE IF thetaTo > ThetaMidpoint(curve) THEN upTo(ThetaMidpoint(curve))
           ELSE CircleDrawBase(doInitialMove, biArcs)

\* c.drawSegment(xpen, thetaFrom, thetaTo, doInitialMove)
DrawSegment(curve, thetaFrom, thetaTo, doInitialMove, biArcs) ==
  IF curve.kind = "const"
  THEN ConstantDrawSegment(thetaFrom, thetaTo, doInitialMove)
  ELSE CircleDrawSegment(curve, thetaFrom, thetaTo, doInitialMove, biArcs)

DTIdle ==
  /\ dt_pc = "idle"
  /\ dt_given = FALSE
  /\ dt_doInitialMove = FALSE
  /\ dt_pos = 0
  /\ dt_pen = <<>>

\* drawToothPath(pen, doInitialMove), once normalizePolarCutPath has returned
DTCall ==
  /\ dt_pc = "idle"
  /\ np_pc = "done"
  /\ \E doInitialMove \in BOOLEAN :
       dt_given' = doInitialMove /\ dt_doInitialMove' = doInitialMove
  /\ dt_pc' = "draw"
  /\ dt_pos' = 1
  /\ UNCHANGED dt_pen
  /\ UNCHANGED <<notToothPath>>

\* one turn of the loop over the segments, and the return after the last
DTDraw ==
  /\ dt_pc = "draw"
  /\ UNCHANGED <<notToothPath, dt_given>>
  /\ IF dt_pos <= Len(Returned)
     THEN LET seg == Returned[dt_pos]
          IN  /\ \E biArcs \in 0..MaxBiArcs :
                   dt_pen' = dt_pen \o DrawSegment(seg[3], (seg[1] - seg[4]) * np_dadt,
                                                   (seg[2] - seg[4]) * np_dadt,
                                                   dt_doInitialMove, biArcs)
              /\ dt_doInitialMove' = FALSE
              /\ dt_pos' = dt_pos + 1
              /\ dt_pc' = "draw"
     ELSE /\ dt_pc' = "done"
          /\ UNCHANGED <<dt_doInitialMove, dt_pos, dt_pen>>

DTNext == DTCall \/ DTDraw

(***************************************************************************)
(* GearCutter: the pen that the rack outline is drawn into.  x is counted  *)
(* in grid units of radius, y in units of dydTooth / Tooth, so that        *)
(* y / dydTooth is y grid units of tooth angle; a turn is counted in units *)
(* of 0.001 radians.  A path entry records which cut was appended and what *)
(* it was made from.                                                       *)
(***************************************************************************)
MaxX == 2
MaxY == 1
MaxTurn == 2
MaxPath == 5
MaxPoly == 4
NTeeth == 4
MaxTeeth == 5
TurnLimit == 1

XValues == (-1)..MaxX
YValues == 0..MaxY
TurnValues == (-MaxTurn)..MaxTurn

XNotSupported == "x <= 0 is not supported in GearCutter"
CurvedNotSupported == "Curved cutter paths are not supported in GearCutter"
NoCurrentPoint == "Curve without current point sent to GearCutter"

TooCurved_Never(turn) == FALSE
\* Math.abs(turn) > 0.001
TooCurved(turn) == Abs(turn) > TurnLimit

PointCut_OneTooth(x, y) ==
  [cut |-> "point", x |-> x, rot |-> y, start |-> y - HalfTooth, end |-> y + HalfTooth]

\* cutPoint(x, y): the entry pushed and the key added to pointCurves
PointCut(x, y) ==
  [cut |-> "point", x |-> x, rot |-> y,
   start |-> y - gc_nTeeth * HalfTooth, end |-> y + gc_nTeeth * HalfTooth]

\* cutFlat(x, y0, y1): the entry pushed
FlatCut(x, y0, y1) ==
  [cut |-> "flat", x |-> x, rot |-> 0,
   start |-> IF y0 < y1 THEN y0 ELSE y1, end |-> IF y0 < y1 THEN y1 ELSE y0]

\* the CircleCut of a slanted edge, by the two ends it is made from
FaceCut(x0, y0, x, y) ==
  [cut |-> "face", x0 |-> x0, y0 |-> y0, x |-> x, y |-> y, rot |-> 0]

GCIdle ==
  /\ gc_lastX = <<>>
  /\ gc_lastY = <<>>
  /\ gc_lastPointIsCut = FALSE
  /\ gc_pointCurves = {}
  /\ gc_flatCurves = {}
  /\ gc_path = <<>>
  /\ gc_call = [op |-> "none", x |-> 0, y |-> 0, turn |-> 0]
  /\ gc_thrown = ""
  /\ gc_nTeeth = 0
  /\ gc_poly = <<>>
  /\ gc_base = 0

\* new GearCutter(nTeeth, pitchRadius, faceTol, filletTol)
GCNew ==
  /\ gc_nTeeth = 0
  /\ UNCHANGED <<notCutter>>
  /\ gc_nTeeth' \in NTeeth..MaxTeeth
  /\ gc_call' = [op |-> "new", x |-> 0, y |-> 0, turn |-> 0]
  /\ UNCHANGED <<gc_lastX, gc_lastY, gc_lastPointIsCut, gc_pointCurves, gc_flatCurves,
                 gc_path, gc_thrown, gc_poly, gc_base>>

GCThrow(message) ==
  /\ gc_thrown' = message
  /\ UNCHANGED <<gc_lastX, gc_lastY, gc_lastPointIsCut, gc_pointCurves, gc_flatCurves,
                 gc_path, gc_poly, gc_base>>

\* GearCutter.moveTo(x, y)
GCMoveTo ==
  /\ gc_nTeeth # 0
  /\ UNCHANGED <<notCutter, gc_nTeeth>>
  /\ \E x \in XValues, y \in YValues :
       /\ gc_call' = [op |-> "moveTo", x |-> x, y |-> y, turn |-> 0]
       /\ IF x <= 0
          THEN GCThrow(XNotSupported)
          ELSE /\ gc_lastX' = <<x>>
               /\ gc_lastY' = <<y>>
               /\ gc_lastPointIsCut' = FALSE
               /\ gc_thrown' = ""
               /\ gc_poly' = <<<<x, y>>>>
               /\ gc_base' = Len(gc_path)
               /\ UNCHANGED <<gc_pointCurves, gc_flatCurves, gc_path>>

EdgeCuts_BothEnds(x0, y0, x, y) ==
  <<PointCut(x0, y0)>>
    \o (IF x0 = x /\ y0 = y THEN <<>>
        ELSE <<PointCut(x, y)>>
               \o (IF x0 = x THEN <<FlatCut(x, y0, y)>> ELSE <<FaceCut(x0, y0, x, y)>>))

\* the accepted part of arcTo: the cuts appended for the edge (x0, y0)-(x, y)
EdgeCuts(x0, y0, x, y) ==
  (IF gc_lastPointIsCut THEN <<>> ELSE <<PointCut(x0, y0)>>)
    \o (IF x0 = x /\ y0 = y THEN <<>>
        ELSE <<PointCut(x, y)>>
               \o (IF x0 = x THEN <<FlatCut(x, y0, y)>> ELSE <<FaceCut(x0, y0, x, y)>>))

\* GearCutter.arcTo(x, y, turn)
GCArcTo ==
  /\ gc_nTeeth # 0
  /\ UNCHANGED <<notCutter, gc_nTeeth>>
  /\ \E x \in XValues, y \in YValues, turn \in TurnValues :
       /\ gc_call' = [op |-> "arcTo", x |-> x, y |-> y, turn |-> turn]
       /\ IF x <= 0 THEN GCThrow(XNotSupported)
          ELSE IF TooCurved(turn) THEN GCThrow(CurvedNotSupported)
          ELSE IF gc_lastX = <<>> \/ gc_lastY = <<>> THEN GCThrow(NoCurrentPoint)
          ELSE LET x0 == gc_lastX[1]
                   y0 == gc_lastY[1]
                   cuts == EdgeCuts(x0, y0, x, y)
               IN  /\ Len(gc_path) + Len(cuts) <= MaxPath
                   /\ Len(gc_poly) < MaxPoly
                   /\ gc_poly' = Append(gc_poly, <<x, y>>)
                   /\ UNCHANGED gc_base
                   /\ gc_lastX' = <<x>>
                   /\ gc_lastY' = <<y>>
                   /\ gc_lastPointIsCut' = TRUE
                   /\ gc_path' = gc_path \o cuts
                   /\ gc_pointCurves' = gc_pointCurves \cup
                        {cuts[j].x : j \in {i \in 1..Len(cuts) : cuts[i].cut = "point"}}
                   /\ gc_flatCurves' = gc_flatCurves \cup
                        {cuts[j].x : j \in {i \in 1..Len(cuts) : cuts[i].cut = "flat"}}
                   /\ gc_thrown' = ""

CutterNext == GCNew \/ GCMoveTo \/ GCArcTo

(***************************************************************************)
(* The output pens.  One pen is constructed and then driven by moveTo and  *)
(* arcTo (and finish, where the pen has it).  Coordinates are small        *)
(* integers; a turn is 0 for a straight edge and otherwise stands for a    *)
(* turn of at least 1e-5 either way.  Of the text and the context calls    *)
(* the pens emit the model keeps the kind of each piece; the bounding      *)
(* boxes, written after the checks only, are left out.                     *)
(***************************************************************************)
MaxPenX == 2
MaxPenY == 1
MaxPenTurn == 1
MaxOut == 4

PenXs == 0..MaxPenX
PenYs == 0..MaxPenY
PenTurns == (-MaxPenTurn)..MaxPenTurn
PenKinds == {"RecordingPen", "SvgPen", "DxfPen", "CanvasPen"}

\* the squared distances below which RecordingPen drops an arc (1e-14) and
\* below which it straightens one (1e-8), in squared grid steps
DropBelow == 2
StraightenBelow == 5

Call(op, x, y, turn) == [op |-> op, x |-> x, y |-> y, turn |-> turn]

PensIdle ==
  /\ pen_kind = "none"
  /\ pen_call = Call("none", 0, 0, 0)
  /\ pen_thrown = ""
  /\ pen_moved = FALSE
  /\ rp_xs = <<>> /\ rp_ys = <<>> /\ rp_turns = <<>> /\ rp_played = <<>>
  /\ sv_closePaths = FALSE /\ sv_havePoint = FALSE /\ sv_havePath = FALSE
  /\ sv_pendingProps = TRUE /\ sv_lastx = 0 /\ sv_lasty = 0 /\ sv_buf = <<>>
  /\ dx_closePaths = FALSE /\ dx_havePoint = FALSE /\ dx_openPath = 0
  /\ dx_lastx = 0 /\ dx_lasty = 0 /\ dx_entitites = <<>>
  /\ cv_lastx = <<>> /\ cv_lasty = <<>> /\ cv_ctx = <<>>

rpVars == <<rp_xs, rp_ys, rp_turns, rp_played>>
svVars == <<sv_closePaths, sv_havePoint, sv_havePath, sv_pendingProps, sv_lastx, sv_lasty,
            sv_buf>>
dxVars == <<dx_closePaths, dx_havePoint, dx_openPath, dx_lastx, dx_lasty, dx_entitites>>
cvVars == <<cv_lastx, cv_lasty, cv_ctx>>

\* new RecordingPen(), new SvgPen(drawProps, buf), new DxfPen(recorder,
\* drawProps), new CanvasPen(ctx)
PenNew ==
  /\ pen_kind = "none"
  /\ UNCHANGED <<notPens>>
  /\ \E kind \in PenKinds, closePaths \in BOOLEAN :
       /\ pen_kind' = kind
       /\ pen_call' = Call("new", 0, 0, 0)
       /\ sv_closePaths' = (kind = "SvgPen" /\ closePaths)
       /\ dx_closePaths' = (kind = "DxfPen" /\ closePaths)
  /\ UNCHANGED <<pen_thrown, pen_moved, rpVars, sv_havePoint, sv_havePath, sv_pendingProps,
                 sv_lastx, sv_lasty, sv_buf, dx_havePoint, dx_openPath, dx_lastx, dx_lasty,
                 dx_entitites, cvVars>>

\* ---- RecordingPen
Last(s) == s[Len(s)]
Front(s) == SubSeq(s, 1, Len(s) - 1)

RPMoveTo ==
  /\ pen_kind = "RecordingPen"
  /\ UNCHANGED <<notPens, pen_kind, svVars, dxVars, cvVars>>
  /\ \E x \in PenXs, y \in PenYs :
       LET replace == Len(rp_turns) > 0 /\ Last(rp_turns) = <<>>
       IN  /\ replace \/ Len(rp_turns) < MaxOut
           /\ pen_call' = Call("moveTo", x, y, 0)
           /\ rp_xs' = Append(IF replace THEN Front(rp_xs) ELSE rp_xs, x)
           /\ rp_ys' = Append(IF replace THEN Front(rp_ys) ELSE rp_ys, y)
           /\ rp_turns' = Append(IF replace THEN Front(rp_turns) ELSE rp_turns, <<>>)
           /\ rp_played' = <<>>
  /\ pen_thrown' = ""
  /\ pen_moved' = TRUE

ArcWithoutMove == "arc without preceding move in RecordingPen"

Mag2(dx, dy) == dx * dx + dy * dy
Straighten_Never(mag2) == FALSE
\* mag2 < 1e-8
Straighten(mag2) == mag2 < StraightenBelow

RPArcTo ==
  /\ pen_kind = "RecordingPen"
  /\ UNCHANGED <<notPens, pen_kind, pen_moved, svVars, dxVars, cvVars>>
  /\ \E x \in PenXs, y \in PenYs, turn \in PenTurns :
       /\ pen_call' = Call("arcTo", x, y, turn)
       /\ IF Len(rp_turns) = 0
          THEN /\ pen_thrown' = ArcWithoutMove
               /\ UNCHANGED rpVars
          ELSE LET i == Len(rp_turns)
                   mag2 == Mag2(x - rp_xs[i], y - rp_ys[i])
               IN  /\ pen_thrown' = ""
                   /\ IF mag2 < DropBelow
                      THEN UNCHANGED rpVars
                      ELSE /\ Len(rp_turns) < MaxOut
                           /\ rp_xs' = Append(rp_xs, x)
                           /\ rp_ys' = Append(rp_ys, y)
                           /\ rp_turns' =
                                Append(rp_turns, <<IF Straighten(mag2) THEN 0 ELSE turn>>)
                           /\ rp_played' = <<>>

\* the loop of path that skips the moves the recording starts with
RECURSIVE SkipMoves(_, _)
SkipMoves(turns, i) ==
  IF i <= Len(turns) /\ turns[i] = <<>> THEN SkipMoves(turns, i + 1) ELSE i

Path_WithoutMoves(xs, ys, turns, doMove) ==
  LET all == [i \in 1..Len(turns) |->
                IF turns[i] = <<>> THEN Call("moveTo", xs[i], ys[i], 0)
                ELSE Call("arcTo", xs[i], ys[i], turns[i][1])]
  IN  IF doMove THEN all ELSE SelectSeq(all, LAMBDA c : c.op # "moveTo")

\* path(pen, doMove): the calls made on pen
Path(xs, ys, turns, doMove) ==
  LET first == IF doMove THEN 1 ELSE SkipMoves(turns, 1)
  IN  [j \in 1..(Len(turns) + 1 - first) |->
         LET i == first + j - 1
         IN  IF turns[i] = <<>> THEN Call("moveTo", xs[i], ys[i], 0)
             ELSE Call("arcTo", xs[i], ys[i], turns[i][1])]

\* a RecordingPen just constructed, and one after moveTo(x, y) or
\* arcTo(x, y, turn)
NewRecording == [xs |-> <<>>, ys |-> <<>>, turns |-> <<>>, thrown |-> ""]

Record(rec, call) ==
  IF call.op = "moveTo"
  THEN LET replace == Len(rec.turns) > 0 /\ Last(rec.turns) = <<>>
       IN  [rec EXCEPT !.xs = Append(IF replace THEN Front(rec.xs) ELSE rec.xs, call.x),
                       !.ys = Append(IF replace THEN Front(rec.ys) ELSE rec.ys, call.y),
                       !.turns = Append(IF replace THEN Front(rec.turns) ELSE rec.turns,
                                        <<>>)]
  ELSE IF Len(rec.turns) = 0 THEN [rec EXCEPT !.thrown = ArcWithoutMove]
  ELSE LET i == Len(rec.turns)
           mag2 == Mag2(call.x - rec.xs[i], call.y - rec.ys[i])
       IN  IF mag2 < DropBelow THEN rec
           ELSE [rec EXCEPT !.xs = Append(rec.xs, call.x),
                            !.ys = Append(rec.ys, call.y),
                            !.turns = Append(rec.turns,
                                             <<IF Straighten(mag2) THEN 0 ELSE call.turn>>)]

\* the calls made one after the other on the RecordingPen rec, up to the
\* first that throws
RECURSIVE Replay(_, _)
Replay(rec, calls) ==
  IF calls = <<>> \/ rec.thrown # "" THEN rec
  ELSE Replay(Record(rec, Head(calls)), Tail(calls))

\* pen.path(new RecordingPen(), doMove) on the RecordingPen pen
RPPath ==
  /\ pen_kind = "RecordingPen"
  /\ UNCHANGED <<notPens, pen_kind, pen_moved, rp_xs, rp_ys, rp_turns, svVars, dxVars,
                 cvVars>>
  /\ pen_call' = Call("path", 0, 0, 0)
  /\ \E doMove \in BOOLEAN :
       LET calls == Path(rp_xs, rp_ys, rp_turns, doMove)
           into == Replay(NewRecording, calls)
       IN  /\ rp_played' = <<[doMove |-> doMove, calls |-> calls, into |-> into]>>
           /\ pen_thrown' = into.thrown

RECURSIVE CountSegments(_)
CountSegments(turns) ==
  IF turns = <<>> THEN 0
  ELSE CountSegments(Tail(turns)) + (IF Head(turns) # <<>> THEN 1 ELSE 0)

\* ---- SvgPen and DxfPen
ArcBeforeMove == "arcTo before moveTo in SVG with"

NoPoint_Ignored(havePoint) == FALSE
\* !this.havePoint
NoPoint(havePoint) == ~havePoint

ClosePath(closePaths) == IF closePaths THEN " Z\"/>" ELSE "\"/>"

SvgFinish ==
  /\ pen_kind = "SvgPen"
  /\ Len(sv_buf) <= MaxOut
  /\ UNCHANGED <<notPens, pen_kind, pen_moved, rpVars, dxVars, cvVars>>
  /\ pen_call' = Call("finish", 0, 0, 0)
  /\ pen_thrown' = ""
  /\ IF sv_pendingProps
     THEN UNCHANGED svVars
     ELSE /\ sv_buf' = (IF sv_havePath THEN Append(sv_buf, ClosePath(sv_closePaths))
                        ELSE sv_buf) \o <<"</g>">>
          /\ sv_havePath' = FALSE
          /\ UNCHANGED <<sv_closePaths, sv_havePoint, sv_pendingProps, sv_lastx, sv_lasty>>

SvgMoveTo ==
  /\ pen_kind = "SvgPen"
  /\ Len(sv_buf) <= MaxOut
  /\ UNCHANGED <<notPens, pen_kind, rpVars, dxVars, cvVars>>
  /\ \E x \in PenXs, y \in PenYs :
       /\ pen_call' = Call("moveTo", x, y, 0)
       /\ sv_lastx' = x
       /\ sv_lasty' = y
  /\ sv_buf' = IF sv_havePath THEN Append(sv_buf, ClosePath(sv_closePaths)) ELSE sv_buf
  /\ sv_havePath' = FALSE
  /\ sv_havePoint' = TRUE
  /\ pen_thrown' = ""
  /\ pen_moved' = TRUE
  /\ UNCHANGED <<sv_closePaths, sv_pendingProps>>

SvgArcTo ==
  /\ pen_kind = "SvgPen"
  /\ UNCHANGED <<notPens, pen_kind, pen_moved, rpVars, dxVars, cvVars>>
  /\ \E x \in PenXs, y \in PenYs, turn \in PenTurns :
       /\ pen_call' = Call("arcTo", x, y, turn)
       /\ IF NoPoint(sv_havePoint)
          THEN /\ pen_thrown' = ArcBeforeMove
               /\ UNCHANGED svVars
          ELSE /\ Len(sv_buf) <= MaxOut
               /\ pen_thrown' = ""
               /\ sv_pendingProps' = FALSE
               /\ sv_buf' = sv_buf
                    \o (IF sv_pendingProps THEN <<"<g>">> ELSE <<>>)
                    \o (IF ~sv_havePath THEN <<"M">> ELSE <<>>)
                    \o (IF turn = 0 THEN <<"L">> ELSE <<"A">>)
               /\ sv_havePath' = TRUE
               /\ sv_lastx' = x
               /\ sv_lasty' = y
               /\ UNCHANGED <<sv_closePaths, sv_havePoint>>

\* DxfPolyLine: of vertexTriplets the first vertex, the last vertex and the
\* number of vertices, and the closed flag
PolyLine(startx, starty) ==
  [first |-> <<startx, starty>>, last |-> <<startx, starty>>, n |-> 1, isClosed |-> FALSE]
AddVertex(line, x, y) == [line EXCEPT !.last = <<x, y>>, !.n = @ + 1]
\* close() drops a last vertex that repeats the first
Close(line) ==
  [line EXCEPT !.isClosed = TRUE,
               !.n = IF line.n > 1 /\ line.first = line.last THEN @ - 1 ELSE @]

\* DxfPen.finish, by what it leaves in openPath and entitites
Finished(openPath, entitites) ==
  IF openPath # 0 /\ dx_closePaths
  THEN [entitites EXCEPT ![openPath] = Close(@)]
  ELSE entitites

DxfFinish ==
  /\ pen_kind = "DxfPen"
  /\ UNCHANGED <<notPens, pen_kind, pen_moved, rpVars, svVars, cvVars>>
  /\ pen_call' = Call("finish", 0, 0, 0)
  /\ pen_thrown' = ""
  /\ dx_entitites' = Finished(dx_openPath, dx_entitites)
  /\ dx_openPath' = 0
  /\ UNCHANGED <<dx_closePaths, dx_havePoint, dx_lastx, dx_lasty>>

DxfMoveTo ==
  /\ pen_kind = "DxfPen"
  /\ UNCHANGED <<notPens, pen_kind, rpVars, svVars, cvVars>>
  /\ \E x \in PenXs, y \in PenYs :
       /\ pen_call' = Call("moveTo", x, y, 0)
       /\ dx_lastx' = x
       /\ dx_lasty' = y
  /\ dx_entitites' = Finished(dx_openPath, dx_entitites)
  /\ dx_openPath' = 0
  /\ dx_havePoint' = TRUE
  /\ pen_thrown' = ""
  /\ pen_moved' = TRUE
  /\ UNCHANGED dx_closePaths

DxfArcTo ==
  /\ pen_kind = "DxfPen"
  /\ UNCHANGED <<notPens, pen_kind, pen_moved, rpVars, svVars, cvVars>>
  /\ \E x \in PenXs, y \in PenYs, turn \in PenTurns :
       /\ pen_call' = Call("arcTo", x, y, turn)
       /\ IF NoPoint(dx_havePoint)
          THEN /\ pen_thrown' = ArcBeforeMove
               /\ UNCHANGED dxVars
          ELSE LET opened == IF dx_openPath = 0
                             THEN Append(dx_entitites, PolyLine(dx_lastx, dx_lasty))
                             ELSE dx_entitites
                   openPath == IF dx_openPath = 0 THEN Len(opened) ELSE dx_openPath
               IN  /\ Len(opened) <= MaxOut - 2
                   /\ opened[openPath].n < MaxOut
                   /\ pen_thrown' = ""
                   /\ dx_openPath' = openPath
                   /\ dx_entitites' = [opened EXCEPT ![openPath] = AddVertex(@, x, y)]
                   /\ dx_lastx' = x
                   /\ dx_lasty' = y
                   /\ UNCHANGED <<dx_closePaths, dx_havePoint>>

\* ---- CanvasPen
NoCanvasPoint == "CanvasPen - arc/line with no current point"

IsUndefined_Always(v) == TRUE
\* v == undefined
IsUndefined(v) == v = <<>>

CanvasMoveTo ==
  /\ pen_kind = "CanvasPen"
  /\ Len(cv_ctx) < MaxOut
  /\ UNCHANGED <<notPens, pen_kind, rpVars, svVars, dxVars>>
  /\ \E x \in PenXs, y \in PenYs :
       /\ pen_call' = Call("moveTo", x, y, 0)
       /\ cv_lastx' = <<x>>
       /\ cv_lasty' = <<y>>
  /\ cv_ctx' = Append(cv_ctx, "moveTo")
  /\ pen_thrown' = ""
  /\ pen_moved' = TRUE

CanvasArcTo ==
  /\ pen_kind = "CanvasPen"
  /\ UNCHANGED <<notPens, pen_kind, pen_moved, rpVars, svVars, dxVars>>
  /\ \E x \in PenXs, y \in PenYs, turn \in PenTurns :
       /\ pen_call' = Call("arcTo", x, y, turn)
       /\ IF IsUndefined(cv_lastx) \/ IsUndefined(cv_lasty)
          THEN /\ pen_thrown' = NoCanvasPoint
               /\ UNCHANGED cvVars
          ELSE /\ Len(cv_ctx) < MaxOut
               /\ pen_thrown' = ""
               /\ cv_ctx' = Append(cv_ctx, IF turn = 0 THEN "lineTo" ELSE "arcTo")
               /\ cv_lastx' = <<x>>
               /\ cv_lasty' = <<y>>

PensNext ==
  \/ PenNew
  \/ RPMoveTo \/ RPArcTo \/ RPPath
  \/ SvgMoveTo \/ SvgArcTo \/ SvgFinish
  \/ DxfMoveTo \/ DxfArcTo \/ DxfFinish
  \/ CanvasMoveTo \/ CanvasArcTo

(***************************************************************************)
(* XFormPen.  Angles are counted in eighths of a turn (45 degrees), so     *)
(* rotDegrees is 0..7 and a multiple of 90 degrees is an even number.      *)
(* Coordinates and the components xx, xy, tx, ty are fixed-point numbers   *)
(* in units of 1 / One.  Math.cos and Math.sin of a multiple of 90 degrees *)
(* return +-1 exactly where the value is +-1, 0 exactly at angle 0, and    *)
(* otherwise a number of about 1e-16 in place of 0 (Math.PI is not pi): 1  *)
(* unit here, with the sign the double has.                                *)
(***************************************************************************)
FullTurn == 8
One == 1000
MaxRotate == 4
MaxFactor == 2
MaxScale == 4
MaxCoord == 1
MaxPens == 2
MaxOps == 4

\* Math.cos((d * Math.PI) / 180.0) and Math.sin(...) for d = 0, 45, ..., 315
CosTable == <<One, 707, 1, -707, -One, -707, -1, 707>>
SinTable == <<0, 707, One, 707, 1, -707, -One, -707>>
Cos(rotDegrees) == CosTable[rotDegrees + 1]
Sin(rotDegrees) == SinTable[rotDegrees + 1]

\* the product of two fixed-point numbers
Times(a, b) == (a * b) \div One

\* new XFormPen(delegate)
NewXFormPen ==
  [rotDegrees |-> 0, flipYinFac |-> 1, scaleFactor |-> 1, xx |-> One, xy |-> 0,
   tx |-> 0, ty |-> 0]

\* XFormPen.rotate(degrees)
Rotate(pen, degrees) ==
  LET rotDegrees == (pen.rotDegrees + degrees * pen.flipYinFac) % FullTurn
      quarter == rotDegrees % 2 = 0
      xx == IF ~quarter THEN Cos(rotDegrees)
            ELSE IF (rotDegrees \div 2) % 2 = 0 THEN Sign(Cos(rotDegrees)) * One ELSE 0
      xy == IF ~quarter THEN Sin(rotDegrees)
            ELSE IF (rotDegrees \div 2) % 2 = 0 THEN 0 ELSE Sign(Sin(rotDegrees)) * One
  IN  [pen EXCEPT !.rotDegrees = rotDegrees,
                  !.xx = xx * pen.scaleFactor,
                  !.xy = xy * pen.scaleFactor]

\* XFormPen.transformPoint(x, y)
TransformPoint(pen, x, y) ==
  <<pen.tx + Times(x, pen.xx) - Times(y * pen.flipYinFac, pen.xy),
    pen.ty + Times(x, pen.xy) + Times(y * pen.flipYinFac, pen.xx)>>

\* XFormPen.translate(x, y)
Translate(pen, x, y) ==
  [pen EXCEPT !.tx = TransformPoint(pen, x, y)[1], !.ty = TransformPoint(pen, x, y)[2]]

\* XFormPen.scale(fac, flipY)
Scale(pen, fac, flipY) ==
  LET turned == IF fac < 0 THEN Rotate(pen, FullTurn \div 2) ELSE pen
      scaleFactor == turned.scaleFactor * Abs(fac)
  IN  [turned EXCEPT !.scaleFactor = scaleFactor,
                     !.flipYinFac = IF flipY THEN -@ ELSE @,
                     !.xx = Cos(turned.rotDegrees) * scaleFactor,
                     !.xy = Sin(turned.rotDegrees) * scaleFactor]

\* XFormPen.copy()
Copy(pen) ==
  Scale(Rotate(Translate(NewXFormPen, pen.tx, pen.ty), pen.rotDegrees),
        pen.scaleFactor, pen.flipYinFac < 0)

XFIdle ==
  /\ xf_pens = <<>>
  /\ xf_call = [op |-> "none", pen |-> 0]
  /\ xf_ops = 0

XFNew ==
  /\ xf_pens = <<>>
  /\ xf_pens' = <<NewXFormPen>>
  /\ xf_call' = [op |-> "new", pen |-> 1]
  /\ UNCHANGED <<notXForm, xf_ops>>

XFRotate ==
  /\ xf_ops < MaxOps
  /\ \E i \in 1..Len(xf_pens), degrees \in (-MaxRotate)..MaxRotate :
       /\ xf_pens' = [xf_pens EXCEPT ![i] = Rotate(@, degrees)]
       /\ xf_call' = [op |-> "rotate", pen |-> i]
  /\ xf_ops' = xf_ops + 1
  /\ UNCHANGED <<notXForm>>

XFTranslate ==
  /\ xf_ops < MaxOps
  /\ \E i \in 1..Len(xf_pens), x \in (-MaxCoord)..MaxCoord, y \in (-MaxCoord)..MaxCoord :
       /\ xf_pens' = [xf_pens EXCEPT ![i] = Translate(@, x * One, y * One)]
       /\ xf_call' = [op |-> "translate", pen |-> i]
  /\ xf_ops' = xf_ops + 1
  /\ UNCHANGED <<notXForm>>

XFScale ==
  /\ xf_ops < MaxOps
  /\ \E i \in 1..Len(xf_pens), fac \in ((-MaxFactor)..MaxFactor) \ {0}, flipY \in BOOLEAN :
       /\ xf_pens[i].scaleFactor * Abs(fac) <= MaxScale
       /\ xf_pens' = [xf_pens EXCEPT ![i] = Scale(@, fac, flipY)]
       /\ xf_call' = [op |-> "scale", pen |-> i]
  /\ xf_ops' = xf_ops + 1
  /\ UNCHANGED <<notXForm>>

XFCopy ==
  /\ xf_ops < MaxOps
  /\ Len(xf_pens) < MaxPens
  /\ \E i \in 1..Len(xf_pens) :
       /\ xf_pens' = Append(xf_pens, Copy(xf_pens[i]))
       /\ xf_call' = [op |-> "copy", pen |-> i]
  /\ xf_ops' = xf_ops + 1
  /\ UNCHANGED <<notXForm>>

XFormNext == XFNew \/ XFRotate \/ XFTranslate \/ XFScale \/ XFCopy

(***************************************************************************)
(* makeRack.  The numbers are the floats of the search model, so that the  *)
(* additions round.  What makeRack derives from the props with sines and   *)
(* cosines (botx, topx, bkw, miny, maxy) is taken as given: any floats up  *)
(* to MaxRackX in size.                                                    *)
(***************************************************************************)
MaxRackX == 32

RackFloats == {f \in Floats : Abs(f) <= MaxRackX}
RackYs == {-Half, 0, Half}

MoveTo(x, y) == [op |-> "moveTo", x |-> x, y |-> y, turn |-> 0]
LineTo(x, y) == [op |-> "arcTo", x |-> x, y |-> y, turn |-> 0]

\* the first three edges of the path function that makeRack returns
RackEdges(p, doMove) ==
  (IF doMove THEN <<MoveTo(FAdd(FSub(-Pow2(OneExp), p.botx), p.bkw), p.miny)>> ELSE <<>>)
    \o <<LineTo(FSub(p.botx, p.bkw), p.miny),
         LineTo(FSub(p.topx, p.bkw), p.maxy),
         LineTo(FAdd(-p.topx, p.bkw), p.maxy)>>

RackPath_Open(p, doMove) == RackEdges(p, doMove)
\* the path function that makeRack returns
RackPath(p, doMove) == Append(RackEdges(p, doMove), LineTo(FAdd(-p.botx, p.bkw), p.miny))

RKIdle ==
  /\ rk_props = [botx |-> 0, topx |-> 0, bkw |-> 0, miny |-> 0, maxy |-> 0]
  /\ rk_doMove = FALSE
  /\ rk_pen = <<>>

\* makeRack(props)(pen, doMove), once
RKCall ==
  /\ rk_pen = <<>>
  /\ \E botx \in RackFloats, topx \in RackFloats, bkw \in RackFloats,
        miny \in RackYs, maxy \in RackYs, doMove \in BOOLEAN :
       LET p == [botx |-> botx, topx |-> topx, bkw |-> bkw, miny |-> miny, maxy |-> maxy]
       IN  /\ rk_props' = p
           /\ rk_doMove' = doMove
           /\ rk_pen' = RackPath(p, doMove)
  /\ UNCHANGED <<notRack>>

(***************************************************************************)
(* Specifications: one per component, all from the state after             *)
(* construction, in which nothing has been called.                         *)
(***************************************************************************)
Init == FSIdle /\ PQIdle /\ NPIdle /\ BAIdle /\ DTIdle /\ GCIdle /\ PensIdle /\ XFIdle /\ RKIdle

SearchNext == FSCallMono \/ FSCallAny \/ FSNext
SpecSearch == Init /\ [][SearchNext]_vars

\* the search alone, with any test; a call that has started runs on
SearchAnyNext == FSCallAny \/ FSNext
SpecSearchFair == Init /\ [][SearchAnyNext]_vars /\ WF_vars(SearchAnyNext)

SpecQueue == Init /\ [][PQNext]_vars

NormalizeNext == NPCallKinds \/ NPCallOne \/ NPCallPair \/ NPNext
SpecNormalize == Init /\ [][NormalizeNext]_vars

SpecBiarc == Init /\ [][BANext]_vars

ToothPathNext == NPCallKinds \/ NPCallOne \/ NPNext \/ DTNext
SpecToothPath == Init /\ [][ToothPathNext]_vars

SpecCutter == Init /\ [][CutterNext]_vars

SpecPens == Init /\ [][PensNext]_vars

SpecXForm == Init /\ [][XFormNext]_vars

SpecRack == Init /\ [][RKCall]_vars

(***************************************************************************)
(* Claims about the priority queue.                                        *)
(***************************************************************************)

\* C4: each pqpop returns an element whose key is <= the key of every element
\* left in the queue and removes exactly that element; pqpop on an empty queue
\* returns undefined and leaves it empty; a pop that follows a pop returns a
\* key that is not smaller, so popping until empty gives non-decreasing keys.
C4_PopMin ==
  pq_op = "pop" =>
    IF pq_before = EmptyBag
    THEN pq_ret = Undefined /\ pq_q = <<>>
    ELSE /\ pq_ret \in PQElements
         /\ \A i \in 1..Len(pq_q) : pq_ret[1] <= pq_q[i][1]
         /\ SeqToBag(pq_q) (+) SetToBag({pq_ret}) = pq_before
         /\ pq_prev # Undefined => pq_prev[1] <= pq_ret[1]

\* a pop from a full queue, after another pop, whose last element sank two
\* levels
C4_Witness ==
  /\ pq_op = "pop" /\ pq_prev # Undefined /\ pq_ret # Undefined
  /\ Len(pq_q) = MaxQueue - 2
  /\ pq_prev[1] < pq_ret[1]
  /\ \E i \in 1..Len(pq_q) : pq_q[i][1] > pq_ret[1]

\* a pop from the empty queue
C4_WitnessEmpty == pq_op = "pop" /\ pq_before = EmptyBag /\ pq_ret = Undefined

FSTypeOK ==
  /\ fs_lo \in Floats /\ fs_hi \in Floats /\ fs_scale \in FloatNN
  /\ fs_probe \in Floats \cup {NoProbe}

(***************************************************************************)
(* Claims about searchForFloat.                                            *)
(***************************************************************************)

FSDone == fs_pc = "done"
FSAdjacent(l, h) == l < h /\ ~\E f \in Floats : l < f /\ f < h

\* C1: for lo < hi and a monotone test that holds at lo and fails at hi, the
\* returned pair (l, h) has lo <= l < h <= hi, the test holds at l and fails at
\* h, and no float lies strictly between l and h.
C1_Bracket ==
  (FSDone /\ fs_pred.kind = "mono") =>
    /\ fs_lo0 <= fs_lo /\ fs_lo < fs_hi /\ fs_hi <= fs_hi0
    /\ fs_lo <= fs_pred.th /\ ~(fs_hi <= fs_pred.th)
    /\ FSAdjacent(fs_lo, fs_hi)

\* the search of a sign-mixed range has returned after at least one probe below
\* zero and narrowed the range
C1_Witness ==
  /\ FSDone /\ fs_pred.kind = "mono"
  /\ fs_lo0 < 0 /\ fs_hi0 > 0 /\ fs_pred.th < 0
  /\ fs_lo0 < fs_lo /\ fs_hi < 0

\* C2: for lo < hi and any test, monotone or not, the search ends (the
\* scaleRange recursion and the bisection loop both end, well before MaxSteps
\* steps) and the returned pair has lo <= l <= h <= hi.
C2_Terminates ==
  /\ <>FSDone
  /\ [](fs_steps < MaxSteps)
  /\ []((FSDone /\ fs_lo0 < fs_hi0) => (fs_lo0 <= fs_lo /\ fs_lo <= fs_hi /\ fs_hi <= fs_hi0))

\* a search with an arbitrary test has ended after the recursion and some
\* iterations of the loop
C2_Witness ==
  /\ FSDone /\ fs_pred.kind = "any" /\ fs_lo0 < fs_hi0
  /\ fs_steps >= 8 /\ fs_lo0 < fs_lo /\ fs_hi < fs_hi0

\* C3: every value passed to the test lies strictly between the original lo and
\* hi (the probe at 0 and the probes through the negated test included); for
\* lo >= hi the test is never called and (lo, hi) is returned.
C3_ProbesInside ==
  /\ fs_probe # NoProbe => (fs_lo0 < fs_probe /\ fs_probe < fs_hi0)
  /\ (FSDone /\ ~(fs_lo0 < fs_hi0)) => (fs_ncalls = 0 /\ fs_lo = fs_lo0 /\ fs_hi = fs_hi0)

\* a probe made through the negated test
C3_Witness == fs_neg /\ fs_probe # NoProbe /\ fs_probe < 0 /\ fs_pc = "unwind"

\* a search given lo >= hi has returned
C3_WitnessEmpty == FSDone /\ fs_lo0 > fs_hi0


(***************************************************************************)
(* normalizePolarCutPath: the claims                                       *)
(***************************************************************************)
NPDone == np_pc = "done"

\* C5: the returned list is ordered and non-overlapping: every returned segment
\* has start <= end, and of two consecutive segments the earlier ends at or
\* before the start of the later
C5_Ordered ==
  NPDone =>
    /\ \A j \in 1..Len(Returned) : Returned[j][1] <= Returned[j][2]
    /\ \A j \in 1..(Len(Returned) - 1) : Returned[j][2] <= Returned[j + 1][1]

\* the segments of the input together cover the window: every grid step of the
\* window is inside one of the queued records
CoversWindow ==
  \A a \in (-HalfTooth)..(HalfTooth - 1) :
    \E j \in 1..Len(np_queued) : np_queued[j][1] <= a /\ a + 1 <= np_queued[j][2]

\* C6: when the input covers the window, the returned intervals make up the
\* window exactly: they start at -0.5 and end at +0.5, no grid angle lies
\* outside all of them, and no two of them share more than an end point
C6_Coverage ==
  (NPDone /\ CoversWindow) =>
    /\ \A a \in (-HalfTooth)..HalfTooth :
         \E j \in 1..Len(Returned) : Returned[j][1] <= a /\ a <= Returned[j][2]
    /\ \A j \in 1..Len(Returned) :
         Returned[j][1] >= -HalfTooth /\ Returned[j][2] <= HalfTooth
    /\ \A i, j \in 1..Len(Returned) : i < j => Returned[i][2] <= Returned[j][1]

\* C7: at every probe angle inside the final interval of a returned segment, the
\* segment's radius is within BOTTOM_TOLERANCE of the radius of every input cut
\* whose span contains the angle
C7_Minimal ==
  NPDone =>
    \A j \in 1..Len(Returned) : \A s \in 1..Len(np_sampleAs) :
      LET a == np_sampleAs[s]
      IN  (Returned[j][1] <= a /\ a <= Returned[j][2]) =>
            \A q \in 1..Len(np_queued) :
              (np_queued[q][1] <= a /\ a <= np_queued[q][2]) =>
                CutR(Returned[j], a) <= CutR(np_queued[q], a) + BOTTOM_TOLERANCE

\* C8 as stated: every queued record has its start and its end in (-0.5, +0.5]
\* and start < end
C8_InHalfOpenWindow ==
  \A j \in 1..Len(np_queued) :
    /\ np_queued[j][1] > -HalfTooth /\ np_queued[j][1] <= HalfTooth
    /\ np_queued[j][2] > -HalfTooth /\ np_queued[j][2] <= HalfTooth
    /\ np_queued[j][1] < np_queued[j][2]

\* C8: every queued record has its start in [-0.5, +0.5), its end in
\* (-0.5, +0.5], and start < end
C8_InWindow ==
  \A j \in 1..Len(np_queued) :
    /\ np_queued[j][1] >= -HalfTooth /\ np_queued[j][1] < HalfTooth
    /\ np_queued[j][2] > -HalfTooth /\ np_queued[j][2] <= HalfTooth
    /\ np_queued[j][1] < np_queued[j][2]

\* a segment given with end < start, starting outside the window and wider than
\* a tooth, has been queued as three records
C8_Witness ==
  /\ np_pc = "samples"
  /\ Len(np_segments) = 1
  /\ np_segments[1][2] < np_segments[1][1]
  /\ np_segments[1][2] < -HalfTooth
  /\ Len(np_queued) = 3
  /\ np_queued[2][1] = -HalfTooth

(***************************************************************************)
(* biArcApproximate: the claims                                            *)
(***************************************************************************)
BADone == ba_pc \in {"done", "drawn"}

\* the pair of samples can be joined: they are adjacent, or every sample
\* between them is within the tolerance of the biarc
Feasible(fromPos, toPos) ==
  \/ fromPos + 1 = toPos
  \/ /\ fromPos + 1 < toPos
     /\ ba_error[<<fromPos, toPos>>] # NaN
     /\ ba_error[<<fromPos, toPos>>] <= ba_tolerance

\* C9: the returned samples have strictly increasing indices, from the first
\* sample to the last, and between two consecutive returned samples every
\* skipped sample is within the tolerance of their biarc
C9_WithinTolerance ==
  BADone =>
    /\ Len(ba_ret) >= 1
    /\ ba_ret[1] = 0
    /\ ba_ret[Len(ba_ret)] = ba_n - 1
    /\ \A j \in 1..(Len(ba_ret) - 1) :
         ba_ret[j] < ba_ret[j + 1] /\ Feasible(ba_ret[j], ba_ret[j + 1])

\* the least number of samples in a selection that ends at sample i
RECURSIVE MinCount(_)
MinCount(i) ==
  IF i = 0 THEN 1
  ELSE 1 + SetMin({MinCount(j) : j \in {k \in 0..(i - 1) : Feasible(k, i)}})

\* C10: no selection from the first sample to the last in which every
\* consecutive pair can be joined has fewer samples than the returned one
C10_Minimum == BADone => Len(ba_ret) <= MinCount(ba_n - 1)

\* every pair of samples with a sample between them has error 0
AllOnCircle == \A pr \in FarPairs(ba_n) : ba_error[pr] = 0

\* C11: with every pair at error 0 and at least 3 samples, the first and the
\* last sample are returned and nothing else, and drawing them sends exactly
\* two arcTo commands
C11_OneBiarc ==
  (ba_pc = "drawn" /\ ba_n >= 3 /\ AllOnCircle) =>
    /\ ba_ret = <<0, ba_n - 1>>
    /\ Len(ba_drawn) = 2
    /\ \A j \in 1..Len(ba_drawn) : ba_drawn[j].op = "arcTo"

C11_Witness ==
  ba_pc = "drawn" /\ ba_n = MaxSamples /\ AllOnCircle /\ ba_tolerance = 0 /\ Len(ba_drawn) = 2

(***************************************************************************)
(* GearCutter.drawToothPath: the claims                                    *)
(***************************************************************************)
\* C12: called with doInitialMove = true, drawToothPath sends a moveTo first
\* and arcTo commands after it, whatever has been sent so far; for an envelope
\* that is not empty something has been sent when the call returns.  So the
\* first sub-draw of the first segment moves and no other sub-draw does.
C12_OneMove ==
  (dt_pc \in {"draw", "done"} /\ dt_given) =>
    /\ \A j \in 1..Len(dt_pen) : (dt_pen[j].op = "moveTo") <=> (j = 1)
    /\ (dt_pc = "done" /\ Len(Returned) > 0) => Len(dt_pen) > 0

\* an envelope of several segments has been drawn, a ConstantRadiusCut segment
\* and a CircleCut segment among them each split into sub-draws
C12_Witness ==
  /\ dt_pc = "done"
  /\ dt_given
  /\ Len(Returned) >= 2
  /\ \E j \in 1..Len(Returned) :
       /\ Returned[j][3].kind = "const"
       /\ (Returned[j][1] - Returned[j][2]) * np_dadt > SplitTurn
  /\ \E j \in 1..Len(Returned) :
       /\ Returned[j][3].kind = "circle"
       /\ (Returned[j][1] - Returned[j][4]) * np_dadt < ThetaMidpoint(Returned[j][3])
       /\ (Returned[j][2] - Returned[j][4]) * np_dadt > ThetaMidpoint(Returned[j][3])
  /\ Cardinality({j \in 1..Len(dt_pen) : dt_pen[j].first}) >= Len(Returned) + 2

(***************************************************************************)
(* GearCutter: the claims                                                  *)
(***************************************************************************)
\* the state of the cutter that its calls write
CutterState ==
  <<gc_path, gc_lastX, gc_lastY, gc_lastPointIsCut, gc_pointCurves, gc_flatCurves>>

\* the last call, made in the state before it, is one the claim is about
DomainError(call) ==
  \/ call.op \in {"moveTo", "arcTo"} /\ call.x <= 0
  \/ call.op = "arcTo" /\ Abs(call.turn) > TurnLimit
  \/ call.op = "arcTo" /\ gc_lastX = <<>>

\* C13: a moveTo or arcTo with x <= 0, an arcTo with a turn beyond 0.001 and
\* an arcTo without a current point throw, and the step of such a call leaves
\* path, lastX, lastY, lastPointIsCut, pointCurves and flatCurves as they were.
C13_ErrorLeavesState ==
  [][DomainError(gc_call') => (gc_thrown' # "" /\ UNCHANGED CutterState)]_vars

\* a curved arcTo has thrown after cuts were appended, with a current point
\* that is cut
C13_Witness ==
  /\ gc_call.op = "arcTo"
  /\ gc_call.x > 0
  /\ gc_thrown = CurvedNotSupported
  /\ Len(gc_path) >= 3
  /\ gc_lastPointIsCut

\* the point cuts of the path
PointCuts == {i \in 1..Len(gc_path) : gc_path[i].cut = "point"}

\* an accepted arcTo has just appended a point cut for the point it was given
PointJustCut ==
  /\ gc_call.op = "arcTo"
  /\ gc_thrown = ""
  /\ Len(gc_poly) >= 2
  /\ gc_poly[Len(gc_poly)] # gc_poly[Len(gc_poly) - 1]

\* the point cut an accepted arcTo appended for its end point has that
\* point's x and the rotation y / dydTooth
RotIsY ==
  PointJustCut =>
    LET cut == gc_path[Len(gc_path) - 1]
    IN  /\ cut.cut = "point"
        /\ cut.x = gc_call.x
        /\ cut.rot = gc_call.y

\* every point cut spans [rot - pi/dadTooth, rot + pi/dadTooth], which is
\* nTeeth / 2 teeth either side of rot
SpanAroundRot ==
  \A i \in PointCuts :
    /\ gc_path[i].start = gc_path[i].rot - gc_nTeeth * HalfTooth
    /\ gc_path[i].end = gc_path[i].rot + gc_nTeeth * HalfTooth

\* C21 as stated: every point cut has rotation y / dydTooth and span
\* [rot - pi/dadTooth, rot + pi/dadTooth], and that span is one tooth wide.
C21_OneToothWide ==
  /\ RotIsY
  /\ SpanAroundRot
  /\ \A i \in PointCuts : gc_path[i].end - gc_path[i].start = 2 * HalfTooth

\* C21, amended: every point cut has rotation y / dydTooth and span
\* [rot - pi/dadTooth, rot + pi/dadTooth], and that span is nTeeth teeth
\* wide, one full turn of the gear, centred on rot.
C21_OneTurnWide ==
  /\ RotIsY
  /\ SpanAroundRot
  /\ \A i \in PointCuts :
       /\ gc_path[i].end - gc_path[i].start = gc_nTeeth * 2 * HalfTooth
       /\ gc_path[i].start + gc_path[i].end = 2 * gc_path[i].rot

\* a cutter of five teeth has just cut a point away from the x axis
C21_Witness ==
  /\ PointJustCut
  /\ gc_nTeeth = MaxTeeth
  /\ gc_call.y # 0
  /\ gc_path[Len(gc_path) - 1].cut = "point"

\* the vertices of a polyline: its points without those that repeat the point
\* before them
RECURSIVE Vertices(_)
Vertices(poly) ==
  IF Len(poly) <= 1 THEN poly
  ELSE LET rest == Vertices(SubSeq(poly, 1, Len(poly) - 1))
       IN  IF poly[Len(poly)] = poly[Len(poly) - 1] THEN rest
           ELSE Append(rest, poly[Len(poly)])

\* what the claim says of a path entry: a point cut by its point, a
\* constant-radius cut by its radius, span and rotation, a circle cut as such
Told(entry) ==
  IF entry.cut = "point" THEN <<"point", entry.x, entry.rot>>
  ELSE IF entry.cut = "flat" THEN <<"flat", entry.x, entry.start, entry.end, entry.rot>>
  ELSE <<"circle">>

\* the cuts the claim expects for the vertices v: the first point, then for
\* each edge the point it ends at and the cut of the edge
RECURSIVE Expected(_)
Expected(v) ==
  IF Len(v) = 0 THEN <<>>
  ELSE IF Len(v) = 1 THEN << <<"point", v[1][1], v[1][2]>> >>
  ELSE LET a == v[Len(v) - 1]
           b == v[Len(v)]
       IN  Expected(SubSeq(v, 1, Len(v) - 1))
             \o << <<"point", b[1], b[2]>>,
                   IF a[1] = b[1]
                   THEN <<"flat", a[1], IF a[2] < b[2] THEN a[2] ELSE b[2],
                          IF a[2] < b[2] THEN b[2] ELSE a[2], 0>>
                   ELSE <<"circle">> >>

\* C22: after a moveTo and one or more accepted arcTo calls the path holds,
\* from where it ended at the moveTo, one point cut per vertex of the
\* polyline and after each vertex but the first the cut of the edge that
\* ends there: a constant-radius cut at radius x0 with span
\* [min(y0, y1), max(y0, y1)] and rotation 0 when x0 = x1, a circle cut
\* otherwise; a point that repeats the one before it adds nothing.
C22_CutsPerVertexAndEdge ==
  Len(gc_poly) >= 2 =>
    LET added == SubSeq(gc_path, gc_base + 1, Len(gc_path))
    IN  [i \in 1..Len(added) |-> Told(added[i])] = Expected(Vertices(gc_poly))

\* a polyline of a vertical edge, a repeated point and a slanted edge has
\* been cut: five cuts for its three vertices and two edges
C22_Witness ==
  /\ Len(gc_poly) = 4
  /\ gc_poly[1][1] = gc_poly[2][1]
  /\ gc_poly[1][2] # gc_poly[2][2]
  /\ gc_poly[3] = gc_poly[2]
  /\ gc_poly[4][1] # gc_poly[3][1]
  /\ Len(gc_path) = gc_base + 5

(***************************************************************************)
(* The output pens: the claims                                             *)
(***************************************************************************)
\* what the pens have recorded or emitted
PenOutput == <<rpVars, svVars, dxVars, cvVars>>

\* C14: on each of the four pens an arcTo made before any moveTo throws and
\* leaves what the pen has recorded or emitted as it was, and an arcTo made
\* after a moveTo, whatever else was called in between, does not throw.
C14_ArcNeedsMove ==
  [][pen_call'.op = "arcTo" =>
       IF pen_moved THEN pen_thrown' = ""
       ELSE pen_thrown' # "" /\ UNCHANGED PenOutput]_vars

\* an arcTo has thrown on a pen that was never moved
C14_Witness ==
  /\ pen_kind \in PenKinds
  /\ pen_call.op = "arcTo"
  /\ ~pen_moved
  /\ pen_thrown # ""

\* the arc (x, y, turn) has been appended to the recording
Recorded(x, y, turn) ==
  /\ rp_xs' = Append(rp_xs, x)
  /\ rp_ys' = Append(rp_ys, y)
  /\ rp_turns' = Append(rp_turns, <<turn>>)

\* C15: RecordingPen.arcTo(x, y, turn) with a point recorded before it: when
\* the squared distance to the last recorded point is below 1e-14 the
\* recording stays as it is, from there up to 1e-8 the arc is recorded with
\* turn 0, and from 1e-8 on with the turn given.  countSegments grows by one
\* with each arc recorded and with nothing else, so it is the number of arcs
\* recorded.
C15_Thresholds ==
  [][/\ (pen_kind = "RecordingPen" /\ pen_call'.op = "arcTo" /\ rp_turns # <<>>) =>
          LET i == Len(rp_turns)
              mag2 == Mag2(pen_call'.x - rp_xs[i], pen_call'.y - rp_ys[i])
          IN  /\ mag2 < DropBelow => UNCHANGED rpVars
              /\ (mag2 >= DropBelow /\ mag2 < StraightenBelow) =>
                   Recorded(pen_call'.x, pen_call'.y, 0)
              /\ mag2 >= StraightenBelow =>
                   Recorded(pen_call'.x, pen_call'.y, pen_call'.turn)
              /\ CountSegments(rp_turns') =
                   CountSegments(rp_turns) + (IF mag2 < DropBelow THEN 0 ELSE 1)
     /\ (pen_kind = "RecordingPen" /\ pen_call'.op = "moveTo") =>
          CountSegments(rp_turns') = CountSegments(rp_turns)]_vars

\* after a move, an arc and another move, a curved arc to a point nearby has
\* been recorded as a straight one
C15_Witness ==
  /\ pen_kind = "RecordingPen"
  /\ pen_call.op = "arcTo"
  /\ pen_call.turn # 0
  /\ Len(rp_turns) = 4
  /\ rp_turns[3] = <<>>
  /\ rp_turns[4] = <<0>>
  /\ <<rp_xs[4], rp_ys[4]>> = <<pen_call.x, pen_call.y>>
  /\ CountSegments(rp_turns) = 2

(***************************************************************************)
(* XFormPen: the claims                                                    *)
(***************************************************************************)
\* C16: every pen whose accumulated rotation is a multiple of 90 degrees has
\* (xx, xy) equal to (s, 0), (0, s), (-s, 0) or (0, -s) exactly, s being its
\* accumulated scale factor, whatever calls made it.
C16_Snapped ==
  \A i \in 1..Len(xf_pens) :
    LET pen == xf_pens[i]
        s == pen.scaleFactor * One
    IN  pen.rotDegrees % 2 = 0 =>
          <<pen.xx, pen.xy>> \in {<<s, 0>>, <<0, s>>, <<-s, 0>>, <<0, -s>>}

\* C17: the pen that copy() returns has the translation, rotation, scale
\* factor and flip of the pen it was called on and maps every point to where
\* that pen maps it; a call on one pen leaves every other pen as it was.
C17_CopySame ==
  [][/\ xf_call'.op = "copy" =>
          LET pen == xf_pens'[xf_call'.pen]
              copy == xf_pens'[Len(xf_pens')]
          IN  /\ <<copy.tx, copy.ty, copy.rotDegrees, copy.scaleFactor, copy.flipYinFac>>
                   = <<pen.tx, pen.ty, pen.rotDegrees, pen.scaleFactor, pen.flipYinFac>>
              /\ \A x \in (-MaxCoord)..MaxCoord, y \in (-MaxCoord)..MaxCoord :
                   TransformPoint(copy, x * One, y * One)
                     = TransformPoint(pen, x * One, y * One)
     /\ \A i \in 1..Len(xf_pens) : i # xf_call'.pen => xf_pens'[i] = xf_pens[i]]_vars

(***************************************************************************)
(* makeRack: the claims                                                    *)
(***************************************************************************)
\* the commands are a moveTo, if asked for, and four arcTo with turn 0
FourEdges ==
  /\ Len(rk_pen) = (IF rk_doMove THEN 5 ELSE 4)
  /\ \A j \in 1..Len(rk_pen) :
       /\ rk_pen[j].op = (IF rk_doMove /\ j = 1 THEN "moveTo" ELSE "arcTo")
       /\ rk_pen[j].turn = 0

\* C18 as stated: the path is a moveTo, if asked for, and four arcTo with
\* turn 0, and with the moveTo the last arcTo ends at the y of the moveTo and
\* at an x exactly 1 greater.
C18_ExactPitch ==
  rk_pen # <<>> =>
    /\ FourEdges
    /\ rk_doMove =>
         /\ rk_pen[5].y = rk_pen[1].y
         /\ rk_pen[5].x = rk_pen[1].x + Pow2(OneExp)

\* C18, amended: the path is a moveTo, if asked for, and four arcTo with turn
\* 0, and with the moveTo the last arcTo ends at the y of the moveTo and at an
\* x that is 1 greater up to the rounding of the three additions that make
\* the two x (each by at most 2^-MantBits of its exact result).
C18_PitchUpToRounding ==
  rk_pen # <<>> =>
    /\ FourEdges
    /\ rk_doMove =>
         /\ rk_pen[5].y = rk_pen[1].y
         /\ Pow2(MantBits) * Abs(rk_pen[5].x - (rk_pen[1].x + Pow2(OneExp)))
              <= Abs(Pow2(OneExp) + rk_props.botx)
                 + Abs(FSub(-Pow2(OneExp), rk_props.botx) + rk_props.bkw)
                 + Abs(rk_props.bkw - rk_props.botx)

\* a path with its moveTo, a sloped flank and a backlash offset, in which the
\* additions have rounded
C18_Witness ==
  /\ Len(rk_pen) = 5
  /\ rk_doMove
  /\ rk_props.bkw # 0
  /\ rk_props.botx # rk_props.topx
  /\ rk_pen[5].x # rk_pen[1].x + Pow2(OneExp)

(***************************************************************************)
(* normalizePolarCutPath: the refinement and the population of the queue   *)
(***************************************************************************)
\* C19: in the returned list, for each two neighbours whose ranges as queued
\* overlapped, the earlier one ends where the later one starts, and that
\* angle is not before the start sample of the earlier one nor after the
\* start sample of the later one.
C19_SingleCrossover ==
  NPDone =>
    \A i \in 1..(Len(np_bottomCuts) - 1) :
      LET lo == np_bottomCuts[i]
          hi == np_bottomCuts[i + 1]
      IN  np_queued[lo][2] > np_queued[hi][1] =>
            /\ np_cuts[lo][2] = np_cuts[hi][1]
            /\ np_bottomCutStartSamples[i] <= np_cuts[lo][2]
            /\ np_cuts[lo][2] <= np_bottomCutStartSamples[i + 1]

\* the end of the one input segment after its start is wrapped into the window
WrappedEnd ==
  LET cut == np_segments[1]
      sa == IF cut[2] < cut[1] THEN cut[2] ELSE cut[1]
      ea == IF cut[2] < cut[1] THEN cut[1] ELSE cut[2]
  IN  ((sa + HalfTooth) % Tooth) - HalfTooth + (ea - sa)

\* the queue has been populated from one input segment whose wrapped span
\* reaches beyond +0.5
CrossesWindowEnd ==
  /\ np_pc \notin {"idle", "populate"}
  /\ Len(np_segments) = 1
  /\ WrappedEnd > HalfTooth

\* C20 as stated: an input segment whose wrapped span crosses +0.5 is queued
\* as exactly two pieces.
C20_TwoPieces == CrossesWindowEnd => Len(np_queued) = 2

\* C20, amended: an input segment whose wrapped span crosses +0.5 is queued
\* as one piece for each window it reaches into: n pieces, n >= 2, when its
\* wrapped end is beyond 0.5 + (n - 2) and not beyond 0.5 + (n - 1); so as
\* exactly two pieces when the wrapped end is at most 1.5.
C20_PiecePerWindow ==
  CrossesWindowEnd =>
    LET n == Len(np_queued)
    IN  /\ n >= 2
        /\ WrappedEnd > HalfTooth + (n - 2) * Tooth
        /\ WrappedEnd <= HalfTooth + (n - 1) * Tooth

\* a segment that starts inside the window and is wider than a tooth and a
\* half has been queued as three pieces
C20_Witness ==
  /\ CrossesWindowEnd
  /\ np_segments[1][1] > -HalfTooth
  /\ np_segments[1][1] < 0
  /\ np_segments[1][2] - np_segments[1][1] > Tooth + HalfTooth
  /\ Len(np_queued) = 3
  /\ np_queued[3][2] < HalfTooth

\* the sample points have been computed
Sampled == np_pc \in {"sweep", "refine", "done"} /\ Len(np_queued) > 0

\* the event angles: of every queued piece its start, its end and its
\* translated discontinuity thetas
EventAs == UNION {EventPoints(np_queued[j]) : j \in 1..Len(np_queued)}

C26_ProbesIncrease ==
  Sampled =>
    \A j \in 1..(Len(np_sampleAs) - 1) : np_sampleAs[j] < np_sampleAs[j + 1]

\* C24: at every probe a of the sweep, after admission and retirement, the
\* active set holds exactly the queued pieces with start <= a < end, each
\* once.
C24_ActiveSet ==
  (np_pc = "sweep" /\ np_pos > 1) =>
    LET a == np_sampleAs[np_pos - 1]
    IN  /\ {np_activeCuts[j] : j \in 1..Len(np_activeCuts)}
             = {id \in 1..Len(np_queued) : np_queued[id][1] <= a /\ a < np_queued[id][2]}
        /\ \A i, j \in 1..Len(np_activeCuts) : np_activeCuts[i] = np_activeCuts[j] => i = j

\* at one probe two pieces with the same start are active while a third that
\* has ended is not
C24_Witness ==
  /\ np_pc = "sweep"
  /\ np_pos > 1
  /\ Len(np_activeCuts) = 2
  /\ np_queued[np_activeCuts[1]][1] = np_queued[np_activeCuts[2]][1]
  /\ \E id \in 1..Len(np_queued) : np_queued[id][2] < np_sampleAs[np_pos - 1]

\* the candidates of the probe the sweep step is at: the active cuts within
\* BOTTOM_TOLERANCE of the lowest, as they are after the step
CandidatesAt(cura) ==
  IF Len(np_activeCuts') = 0 THEN <<>>
  ELSE GetBottomSegs(np_cuts, np_activeCuts', cura,
                     GetMinR(np_cuts, np_activeCuts', cura))

\* the previous candidates that are candidates of the probe as well
Intersection(cura) ==
  SelectSeq(np_prevCandidates,
            LAMBDA id : \E j \in 1..Len(CandidatesAt(cura)) : CandidatesAt(cura)[j] = id)

\* the step of the sweep: the intersection becoming empty, the commit of the
\* previous representative for [candidate_start, previous_probe], the new seed
Commits ==
  /\ Len(np_bottomCuts') = Len(np_bottomCuts) + 1
  /\ np_bottomCuts'[Len(np_bottomCuts')] = np_prevCandidates[1]
  /\ np_bottomCutStartSamples'[Len(np_bottomCuts')] = np_prevCandidateStartSample
  /\ np_bottomCutEndSamples'[Len(np_bottomCuts')] = np_sampleAs[np_pos - 1]
  /\ np_prevCandidateStartSample <= np_sampleAs[np_pos - 1]
  /\ np_prevCandidates' = CandidatesAt(np_sampleAs[np_pos])

\* C25: whenever the intersection of the previous candidate set with the
\* candidates of the current probe becomes empty, the sweep commits the
\* previous representative with the range [candidate_start, previous_probe],
\* previous_probe being the probe just before the current one and not less
\* than candidate_start, and seeds the candidate set from the candidates of
\* the current probe.
C25_CommitRange ==
  [][(/\ np_pc = "sweep"
      /\ np_pos <= Len(np_sampleAs)
      /\ np_pos' = np_pos + 1
      /\ Len(np_prevCandidates) > 0
      /\ Len(Intersection(np_sampleAs[np_pos])) = 0) => Commits]_vars

\* C27: every entry of the returned list is a distinct record.
C27_DistinctRecords ==
  NPDone =>
    \A i, j \in 1..Len(np_bottomCuts) : np_bottomCuts[i] = np_bottomCuts[j] => i = j

\* C28: no step of a call of normalizePolarCutPath changes the input: the
\* array and the start, end, curve and rotation of every segment in it stay
\* as they were given.
C28_InputUnchanged == [][np_pc # "idle" => np_segments' = np_segments]_vars

\* a call has returned after the refinement trimmed two of its records
C28_Witness ==
  /\ NPDone
  /\ Len(np_bottomCuts) >= 2
  /\ \E id \in 1..Len(np_cuts) : np_cuts[id][1] # np_queued[id][1]
  /\ \E id \in 1..Len(np_cuts) : np_cuts[id][2] # np_queued[id][2]

\* the range of the queued piece in the angles of its curve
Relative(piece) == <<piece[1] - piece[4], piece[2] - piece[4]>>

RecordedCalls ==
  [i \in 1..Len(rp_turns) |->
     IF rp_turns[i] = <<>> THEN Call("moveTo", rp_xs[i], rp_ys[i], 0)
     ELSE Call("arcTo", rp_xs[i], rp_ys[i], rp_turns[i][1])]

\* C30: the recording of a RecordingPen never holds two consecutive moves;
\* path(pen, true) replays exactly the recorded commands in recorded order,
\* path(pen, false) the same commands except the leading move, and the
\* commands of path(pen, true) played into a new RecordingPen give a
\* recording identical to the original.
C30_PathReplays ==
  pen_kind = "RecordingPen" =>
    /\ Len(rp_xs) = Len(rp_turns) /\ Len(rp_ys) = Len(rp_turns)
    /\ \A i \in 1..(Len(rp_turns) - 1) : rp_turns[i] # <<>> \/ rp_turns[i + 1] # <<>>
    /\ rp_played # <<>> =>
         IF rp_played[1].doMove
         THEN /\ rp_played[1].calls = RecordedCalls
              /\ rp_played[1].into.thrown = ""
              /\ rp_played[1].into.xs = rp_xs
              /\ rp_played[1].into.ys = rp_ys
              /\ rp_played[1].into.turns = rp_turns
         ELSE rp_played[1].calls
                = (IF Len(rp_turns) = 0 THEN <<>> ELSE Tail(RecordedCalls))

\* path(pen, false) was called on a recording of a move, an arc, a second
\* move and a straightened arc
C30_Witness ==
  /\ pen_kind = "RecordingPen"
  /\ rp_played # <<>>
  /\ ~rp_played[1].doMove
  /\ Len(rp_turns) = 4
  /\ rp_turns[3] = <<>>
  /\ rp_turns[2] # <<>>
  /\ pen_call.op = "path"
  /\ Len(rp_played[1].calls) = 3

\* path(pen, true) was played into a new RecordingPen from a recording whose
\* last arc was given with a turn and recorded straight
C30_WitnessCopy ==
  /\ pen_kind = "RecordingPen"
  /\ rp_played # <<>>
  /\ rp_played[1].doMove
  /\ Len(rp_turns) >= 3
  /\ rp_played[1].into.turns = rp_turns
  /\ \E i \in 2..Len(rp_turns) :
       /\ rp_turns[i] = <<0>>
       /\ Mag2(rp_xs[i] - rp_xs[i - 1], rp_ys[i] - rp_ys[i - 1]) < StraightenBelow
====
